---- MODULE Spec2Model ----
(***************************************************************************)
(* Model of the territories-game referee: the nations and holdings tables  *)
(* of pkg/db/provision.sql and the five action handlers of pkg/actions     *)
(* (Join, Color, Raise, Move, Attack) working on them, one action at a     *)
(* time.  Every handler is one atomic step: its validation, its writes and *)
(* the commit or rollback of its transaction.                              *)
(***************************************************************************)
EXTENDS Integers, Sequences, FiniteSets, TLC

VARIABLES
    cfg,          \* the validated *config.Config
    nations,      \* rows of table nations
    holdings,     \* rows of table holdings
    nationSeq,    \* sqlite_sequence of nations (AUTOINCREMENT never reuses an id)
    lastAction,   \* the Action the running process was started with, NoAction
                  \* between two processes
    lastErr,      \* the error its DoAction returned ("nil" on success)
    lastRoll,     \* the die roll randInt(20) + 1 its DoAction drew, 0 when it
                  \* drew none
    battle,       \* the forces attackCalculation is called with on its own
    outcome,      \* what that call returned, NotCalled before it
    pending,      \* the process that has read the tables and has not yet written,
                  \* with what it read and what other processes did since
    actions,      \* rows of table actions, in the order of their ids
    turnEnds,     \* turnEndHandlers: for each registered handler, the number of
                  \* times it was called
    returned      \* what the last call of a function of pkg/turns returned

vars == <<cfg, nations, holdings, nationSeq, lastAction, lastErr, lastRoll,
          battle, outcome, pending, actions, turnEnds, returned>>

(***************************************************************************)
(* Bounds of the model.                                                    *)
(***************************************************************************)
\* largest initialArmies of a configuration
MaxInitialArmies == 2
\* largest maxArmiesPerTerritory of a configuration
MaxCap == 2
\* number of nation rows ever inserted in one game
MaxNationId == 2
\* Raise is not explored beyond this army size
MaxArmySize == 2
\* largest army count a Move is submitted with
MaxMoveArmies == 2

(***************************************************************************)
(* Error values.  "nil" is Go's nil error; the Err* names are the package  *)
(* level errors of pkg/actions; the others name fmt.Errorf / driver errors.*)
(***************************************************************************)
Nil == "nil"
ErrMissingUser == "ErrMissingUser"
ErrUserNotRegistered == "ErrUserNotRegistered"
ErrNoTargetTerritory == "ErrNoTargetTerritory"
ErrPlayerAlreadyJoined == "ErrPlayerAlreadyJoined"
ErrNationAlreadyJoined == "ErrNationAlreadyJoined"
ErrTerritoryAlreadyOccupied == "ErrTerritoryAlreadyOccupied"
ErrColorInUse == "ErrColorInUse"
ErrUnrecognizedTerritory == "unrecognized abbreviation, name, or alias"
ErrSqliteConstraint == "sqlite3: constraint failed"
ErrScanNull == "sql: Scan error: converting NULL to string is unsupported"
ErrNoDefendingNation == "no defending nation found for territory"
ErrNoArmiesToRaise == "no armies controlled by player to raise"
ErrMaxArmies == "cannot raise army size: already at maximum"
ErrNoArmiesToMove == "no armies controlled by player to move"
ErrNotEnoughArmies == "cannot move armies: only some available"
ErrNotControlled == "cannot move from: no armies controlled by player"
ErrWouldExceedMax == "cannot move armies: would exceed maximum"
ErrFriendlyFire == "cannot attack: friendly fire not allowed"
ErrNotNeighboring == "cannot attack: not a neighboring territory"
ErrCounterattack == "counterattack logic not implemented yet"
ErrNoAttackingArmies == "no armies controlled by player to attack with"
ErrNoDefendingArmies == "no armies in defending territory"
ErrInvalidArmySizes == "invalid army sizes"
ErrInvalidColor == "invalid color expression"

\* SQL NULL, as the left join of v_nation_holdings yields it
Null == "<NULL>"

(***************************************************************************)
(* Inputs: the strings actions are submitted with.                         *)
(***************************************************************************)
Users == {"", "alice", "bob"}
NationNames == {"", "alice's Nation"}
TerritoryQueries == {"", "CA", "Cali", "nv", "UT", "ZZ"}
\* the queries Move and Attack, which take two territories, are submitted with
RouteQueries == {"", "CA", "Cali", "nv", "UT"}
ColorExprs == {"red", "#F00", "bogus"}
RandomColors == {"ff0000", "00ff00"}

(***************************************************************************)
(* Configuration.                                                          *)
(***************************************************************************)
\* Config.Territories: three of the territories of the testing configuration,
\* one of them with an alias
Territories ==
    << [Abbreviation |-> "CA", Name |-> "California", Aliases |-> <<"Cali">>,
        Neighbors |-> <<"NV">>],
       [Abbreviation |-> "NV", Name |-> "Nevada", Aliases |-> <<>>,
        Neighbors |-> <<"CA", "UT">>],
       [Abbreviation |-> "UT", Name |-> "Utah", Aliases |-> <<>>,
        Neighbors |-> <<"NV">>] >>

Abbreviations == {Territories[i].Abbreviation : i \in DOMAIN Territories}

\* strings.ToLower on the strings of this model
ToLower(s) ==
    CASE s = "CA" -> "ca"
      [] s = "NV" -> "nv"
      [] s = "UT" -> "ut"
      [] s = "ZZ" -> "zz"
      [] s = "Cali" -> "cali"
      [] s = "California" -> "california"
      [] s = "Nevada" -> "nevada"
      [] s = "Utah" -> "utah"
      [] OTHER -> s

Range(seq) == {seq[i] : i \in DOMAIN seq}

\* one iteration of the loop of Config.ResolveTerritory
TerritoryMatches(territory, query) ==
    \/ ToLower(territory.Abbreviation) = ToLower(query)
    \/ ToLower(query) = ToLower(territory.Name)
    \/ \E alias \in Range(territory.Aliases) : ToLower(query) = ToLower(alias)

\* Config.ResolveTerritory: index of the first matching territory, 0 when the
\* query is unrecognized
ResolveTerritory(query) ==
    LET hits == {t \in DOMAIN Territories : TerritoryMatches(Territories[t], query)}
    IN IF hits = {} THEN 0
       ELSE CHOOSE t \in hits : \A u \in hits : t <= u

\* Territory.IsNeighboring, for a query that resolves
IsNeighboring(territory, query) ==
    Territories[ResolveTerritory(query)].Abbreviation \in Range(territory.Neighbors)

(***************************************************************************)
(* The store: tables nations and holdings, view v_nation_holdings.         *)
(***************************************************************************)
\* SELECT ... FROM nations WHERE player = ?
NationsOfPlayer(n, player) == {r \in n : r.player = player}

\* SELECT ... FROM nations WHERE country_name = ?
NationsNamed(n, country_name) == {r \in n : r.country_name = country_name}

\* the player column of v_nation_holdings: holdings LEFT JOIN nations
ViewPlayer(n, h) ==
    LET owners == {r \in n : r.id = h.nation_id}
    IN IF owners = {} THEN Null ELSE (CHOOSE r \in owners : TRUE).player

\* CREATE VIEW v_nation_holdings
v_nation_holdings(n, hs) ==
    {[territory |-> h.territory, nation_id |-> h.nation_id,
      army_size |-> h.army_size, player |-> ViewPlayer(n, h)] : h \in hs}

\* SELECT ... FROM v_nation_holdings WHERE territory = ?
ViewAt(n, hs, territory) == {v \in v_nation_holdings(n, hs) : v.territory = territory}

\* CHECK(army_size > 0) of table holdings
ArmySizeCheck(army_size) == army_size > 0

\* the constraints of table nations an INSERT of the row must satisfy
NationInsertAllowed(n, row) ==
    /\ row.country_name # ""
    /\ row.player # ""
    /\ \A r \in n : r.country_name # row.country_name
    /\ \A r \in n : r.player # row.player
    /\ \A r \in n : r.color # row.color

\* an UPDATE of nations.color without the UNIQUE(color) constraint
ColorUpdateUnchecked(n, player, color) == TRUE

\* UNIQUE(color) for UPDATE nations SET color = ? WHERE player = ?
ColorUpdateAllowed(n, player, color) ==
    \A r \in n : \A s \in n : (r.player = player /\ s.id # r.id) => s.color # color

\* table holdings without UNIQUE(territory)
TerritoryNotUnique(hs, territory) == TRUE

\* UNIQUE(territory) of table holdings
TerritoryUnique(hs, territory) == \A h \in hs : h.territory # territory

\* DELETE FROM nations WHERE player = ?; UpdateHoldingArmySize executes it
\* only for a player without holdings, so that the foreign key of holdings,
\* enforced or not, has no row to act on
DeleteNation(db, player) ==
    [db EXCEPT !.nations = db.nations \ NationsOfPlayer(db.nations, player)]

(***************************************************************************)
(* util.go                                                                 *)
(***************************************************************************)
\* ValidateUser
ValidateUser(user, n) ==
    IF user = "" THEN ErrMissingUser
    ELSE IF NationsOfPlayer(n, user) = {} THEN ErrUserNotRegistered
    ELSE Nil

\* PlayerHoldings
PlayerHoldings(db, player) ==
    Cardinality({v \in v_nation_holdings(db.nations, db.holdings) : v.player = player})

\* UpdateHoldingArmySize never deleting the nation that lost its last holding
UpdateHoldingArmySizeKeepsNation(db, territory, size, deleteNationIfNoTerritories) ==
    LET found == ViewAt(db.nations, db.holdings, territory)
        defendingNationPlayer == (CHOOSE v \in found : TRUE).player
        written ==
            IF size > 0
            THEN {IF h.territory = territory THEN [h EXCEPT !.army_size = size] ELSE h
                    : h \in db.holdings}
            ELSE {h \in db.holdings : h.territory # territory}
        after == [nations |-> db.nations, holdings |-> written]
    IN IF found = {} THEN [db |-> db, err |-> ErrNoDefendingNation]
       ELSE IF defendingNationPlayer = Null THEN [db |-> db, err |-> ErrScanNull]
       ELSE [db |-> after, err |-> Nil]

\* UpdateHoldingArmySize with "if size >= 0" for "if size > 0": a holding that
\* reaches zero armies is updated, not deleted
UpdateHoldingArmySizeStoresZero(db, territory, size, deleteNationIfNoTerritories) ==
    LET found == ViewAt(db.nations, db.holdings, territory)
        defendingNationPlayer == (CHOOSE v \in found : TRUE).player
        written ==
            IF size >= 0
            THEN {IF h.territory = territory THEN [h EXCEPT !.army_size = size] ELSE h
                    : h \in db.holdings}
            ELSE {h \in db.holdings : h.territory # territory}
        after == [nations |-> db.nations, holdings |-> written]
    IN IF found = {} THEN [db |-> db, err |-> ErrNoDefendingNation]
       ELSE IF defendingNationPlayer = Null THEN [db |-> db, err |-> ErrScanNull]
       ELSE [db |-> after, err |-> Nil]

\* UpdateHoldingArmySize, on the store db = [nations, holdings]; the result is
\* the store after it and the error it returns
UpdateHoldingArmySize(db, territory, size, deleteNationIfNoTerritories) ==
    LET found == ViewAt(db.nations, db.holdings, territory)
        defendingNationPlayer == (CHOOSE v \in found : TRUE).player
        written ==
            IF size > 0
            THEN {IF h.territory = territory THEN [h EXCEPT !.army_size = size] ELSE h
                    : h \in db.holdings}
            ELSE {h \in db.holdings : h.territory # territory}
        after == [nations |-> db.nations, holdings |-> written]
    IN IF found = {} THEN [db |-> db, err |-> ErrNoDefendingNation]
       ELSE IF defendingNationPlayer = Null THEN [db |-> db, err |-> ErrScanNull]
       ELSE IF size = 0 /\ deleteNationIfNoTerritories
                 /\ PlayerHoldings(after, defendingNationPlayer) = 0
       THEN [db |-> DeleteNation(after, defendingNationPlayer), err |-> Nil]
       ELSE [db |-> after, err |-> Nil]

(***************************************************************************)
(* join.go                                                                 *)
(***************************************************************************)
\* JoinAction.DoAction without the rollback: the nation inserted before the
\* holding's insert fails stays in the table
JoinDoActionNoRollback(db, seq, c, ja, color) ==
    LET Nation == IF ja.Nation = "" THEN ja.User \o "'s Nation" ELSE ja.Nation
        joinTerritory == ResolveTerritory(ja.Territory)
        nationRow == [id |-> seq + 1, country_name |-> Nation, player |-> ja.User,
                      color |-> color]
        withNation == db.nations \cup {nationRow}
        nationIds == {r.id : r \in NationsNamed(withNation, Nation)}
        holdingRow == [territory |-> Territories[joinTerritory].Abbreviation,
                       nation_id |-> CHOOSE id \in nationIds : TRUE,
                       army_size |-> c.InitialArmies]
        rejected(err) == [db |-> db, seq |-> seq, err |-> err]
        halfDone(err) == [db |-> [db EXCEPT !.nations = withNation], seq |-> seq + 1,
                          err |-> err]
    IN IF ja.Territory = "" THEN rejected(ErrNoTargetTerritory)
       ELSE IF joinTerritory = 0 THEN rejected(ErrUnrecognizedTerritory)
       ELSE IF NationsOfPlayer(db.nations, ja.User) # {} THEN rejected(ErrPlayerAlreadyJoined)
       ELSE IF NationsNamed(db.nations, Nation) # {} THEN rejected(ErrNationAlreadyJoined)
       ELSE IF ~NationInsertAllowed(db.nations, nationRow) THEN rejected(ErrSqliteConstraint)
       ELSE IF ~ArmySizeCheck(holdingRow.army_size) THEN halfDone(ErrSqliteConstraint)
       ELSE IF ~TerritoryUnique(db.holdings, holdingRow.territory)
       THEN halfDone(ErrTerritoryAlreadyOccupied)
       ELSE [db |-> [nations |-> withNation, holdings |-> db.holdings \cup {holdingRow}],
             seq |-> seq + 1, err |-> Nil]

\* JoinAction.DoAction inserting the holding with army_size 1, whatever
\* InitialArmies is
JoinDoActionOneArmy(db, seq, c, ja, color) ==
    LET Nation == IF ja.Nation = "" THEN ja.User \o "'s Nation" ELSE ja.Nation
        joinTerritory == ResolveTerritory(ja.Territory)
        nationRow == [id |-> seq + 1, country_name |-> Nation, player |-> ja.User,
                      color |-> color]
        withNation == db.nations \cup {nationRow}
        nationIds == {r.id : r \in NationsNamed(withNation, Nation)}
        holdingRow == [territory |-> Territories[joinTerritory].Abbreviation,
                       nation_id |-> CHOOSE id \in nationIds : TRUE,
                       army_size |-> 1]
        rejected(err) == [db |-> db, seq |-> seq, err |-> err]
    IN IF ja.Territory = "" THEN rejected(ErrNoTargetTerritory)
       ELSE IF joinTerritory = 0 THEN rejected(ErrUnrecognizedTerritory)
       ELSE IF NationsOfPlayer(db.nations, ja.User) # {} THEN rejected(ErrPlayerAlreadyJoined)
       ELSE IF NationsNamed(db.nations, Nation) # {} THEN rejected(ErrNationAlreadyJoined)
       ELSE IF ~NationInsertAllowed(db.nations, nationRow) THEN rejected(ErrSqliteConstraint)
       ELSE IF ~ArmySizeCheck(holdingRow.army_size) THEN rejected(ErrSqliteConstraint)
       ELSE IF ~TerritoryUnique(db.holdings, holdingRow.territory)
       THEN rejected(ErrTerritoryAlreadyOccupied)
       ELSE [db |-> [nations |-> withNation, holdings |-> db.holdings \cup {holdingRow}],
             seq |-> seq + 1, err |-> Nil]

\* JoinAction.DoAction looking the nation name up before the player
JoinDoActionNationFirst(db, seq, c, ja, color) ==
    LET Nation == IF ja.Nation = "" THEN ja.User \o "'s Nation" ELSE ja.Nation
        joinTerritory == ResolveTerritory(ja.Territory)
        nationRow == [id |-> seq + 1, country_name |-> Nation, player |-> ja.User,
                      color |-> color]
        withNation == db.nations \cup {nationRow}
        nationIds == {r.id : r \in NationsNamed(withNation, Nation)}
        holdingRow == [territory |-> Territories[joinTerritory].Abbreviation,
                       nation_id |-> CHOOSE id \in nationIds : TRUE,
                       army_size |-> c.InitialArmies]
        rejected(err) == [db |-> db, seq |-> seq, err |-> err]
    IN IF ja.Territory = "" THEN rejected(ErrNoTargetTerritory)
       ELSE IF joinTerritory = 0 THEN rejected(ErrUnrecognizedTerritory)
       ELSE IF NationsNamed(db.nations, Nation) # {} THEN rejected(ErrNationAlreadyJoined)
       ELSE IF NationsOfPlayer(db.nations, ja.User) # {} THEN rejected(ErrPlayerAlreadyJoined)
       ELSE IF ~NationInsertAllowed(db.nations, nationRow) THEN rejected(ErrSqliteConstraint)
       ELSE IF ~ArmySizeCheck(holdingRow.army_size) THEN rejected(ErrSqliteConstraint)
       ELSE IF ~TerritoryUnique(db.holdings, holdingRow.territory)
       THEN rejected(ErrTerritoryAlreadyOccupied)
       ELSE [db |-> [nations |-> withNation, holdings |-> db.holdings \cup {holdingRow}],
             seq |-> seq + 1, err |-> Nil]

\* JoinAction.DoAction looking at the holding of the territory before it
\* looks the player and the nation name up
JoinDoActionOccupiedFirst(db, seq, c, ja, color) ==
    LET Nation == IF ja.Nation = "" THEN ja.User \o "'s Nation" ELSE ja.Nation
        joinTerritory == ResolveTerritory(ja.Territory)
        nationRow == [id |-> seq + 1, country_name |-> Nation, player |-> ja.User,
                      color |-> color]
        withNation == db.nations \cup {nationRow}
        nationIds == {r.id : r \in NationsNamed(withNation, Nation)}
        holdingRow == [territory |-> Territories[joinTerritory].Abbreviation,
                       nation_id |-> CHOOSE id \in nationIds : TRUE,
                       army_size |-> c.InitialArmies]
        rejected(err) == [db |-> db, seq |-> seq, err |-> err]
    IN IF ja.Territory = "" THEN rejected(ErrNoTargetTerritory)
       ELSE IF joinTerritory = 0 THEN rejected(ErrUnrecognizedTerritory)
       ELSE IF ~TerritoryUnique(db.holdings, holdingRow.territory)
       THEN rejected(ErrTerritoryAlreadyOccupied)
       ELSE IF NationsOfPlayer(db.nations, ja.User) # {} THEN rejected(ErrPlayerAlreadyJoined)
       ELSE IF NationsNamed(db.nations, Nation) # {} THEN rejected(ErrNationAlreadyJoined)
       ELSE IF ~NationInsertAllowed(db.nations, nationRow) THEN rejected(ErrSqliteConstraint)
       ELSE IF ~ArmySizeCheck(holdingRow.army_size) THEN rejected(ErrSqliteConstraint)
       ELSE [db |-> [nations |-> withNation, holdings |-> db.holdings \cup {holdingRow}],
             seq |-> seq + 1, err |-> Nil]

\* JoinAction.DoAction; color is the value randomColor() returns
JoinDoAction(db, seq, c, ja, color) ==
    LET Nation == IF ja.Nation = "" THEN ja.User \o "'s Nation" ELSE ja.Nation
        joinTerritory == ResolveTerritory(ja.Territory)
        nationRow == [id |-> seq + 1, country_name |-> Nation, player |-> ja.User,
                      color |-> color]
        withNation == db.nations \cup {nationRow}
        nationIds == {r.id : r \in NationsNamed(withNation, Nation)}
        holdingRow == [territory |-> Territories[joinTerritory].Abbreviation,
                       nation_id |-> CHOOSE id \in nationIds : TRUE,
                       army_size |-> c.InitialArmies]
        rejected(err) == [db |-> db, seq |-> seq, err |-> err]
    IN IF ja.Territory = "" THEN rejected(ErrNoTargetTerritory)
       ELSE IF joinTerritory = 0 THEN rejected(ErrUnrecognizedTerritory)
       ELSE IF NationsOfPlayer(db.nations, ja.User) # {} THEN rejected(ErrPlayerAlreadyJoined)
       ELSE IF NationsNamed(db.nations, Nation) # {} THEN rejected(ErrNationAlreadyJoined)
       ELSE IF ~NationInsertAllowed(db.nations, nationRow) THEN rejected(ErrSqliteConstraint)
       ELSE IF ~ArmySizeCheck(holdingRow.army_size) THEN rejected(ErrSqliteConstraint)
       ELSE IF ~TerritoryUnique(db.holdings, holdingRow.territory)
       THEN rejected(ErrTerritoryAlreadyOccupied)
       ELSE [db |-> [nations |-> withNation, holdings |-> db.holdings \cup {holdingRow}],
             seq |-> seq + 1, err |-> Nil]

(***************************************************************************)
(* color.go                                                                *)
(***************************************************************************)
\* csscolorparser.Parse, then A = 1.0, Clamp().HexString() and
\* strings.TrimPrefix(.., "#"): the 6-digit lowercase hex of a color
\* expression, "" when the expression does not parse
NormalizeColor(expr) ==
    CASE expr = "red" -> "ff0000"
      [] expr = "#F00" -> "ff0000"
      [] expr = "blue" -> "0000ff"
      [] OTHER -> ""

\* ColorAction.DoAction refusing a color that any nation has, the player's
\* own included
ColorDoActionOwnRefused(db, ca) ==
    LET Color == NormalizeColor(ca.Color)
        rejected(err) == [db |-> db, err |-> err]
    IN IF ValidateUser(ca.User, db.nations) # Nil
       THEN rejected(ValidateUser(ca.User, db.nations))
       ELSE IF Color = "" THEN rejected(ErrInvalidColor)
       ELSE IF \E r \in db.nations : r.color = Color THEN rejected(ErrColorInUse)
       ELSE [db |-> [db EXCEPT !.nations =
                        {IF r.player = ca.User THEN [r EXCEPT !.color = Color] ELSE r
                            : r \in db.nations}],
             err |-> Nil]

\* ColorAction.DoAction
ColorDoAction(db, ca) ==
    LET Color == NormalizeColor(ca.Color)
        rejected(err) == [db |-> db, err |-> err]
    IN IF ValidateUser(ca.User, db.nations) # Nil
       THEN rejected(ValidateUser(ca.User, db.nations))
       ELSE IF Color = "" THEN rejected(ErrInvalidColor)
       ELSE IF ~ColorUpdateAllowed(db.nations, ca.User, Color) THEN rejected(ErrColorInUse)
       ELSE [db |-> [db EXCEPT !.nations =
                        {IF r.player = ca.User THEN [r EXCEPT !.color = Color] ELSE r
                            : r \in db.nations}],
             err |-> Nil]

(***************************************************************************)
(* raise.go                                                                *)
(***************************************************************************)
\* RaiseAction.DoAction refusing only a holding above the cap ("armySize >
\* cfg.MaxArmiesPerTerritory"): a holding at the cap is raised once more
RaiseDoActionPastCap(db, c, ra) ==
    LET territory == ResolveTerritory(ra.Territory)
        found == {v \in ViewAt(db.nations, db.holdings, Territories[territory].Abbreviation)
                    : v.player = ra.User}
        armySize == (CHOOSE v \in found : TRUE).army_size
        rejected(err) == [db |-> db, err |-> err]
    IN IF ValidateUser(ra.User, db.nations) # Nil
       THEN rejected(ValidateUser(ra.User, db.nations))
       ELSE IF ra.Territory = "" THEN rejected(ErrNoTargetTerritory)
       ELSE IF territory = 0 THEN rejected(ErrUnrecognizedTerritory)
       ELSE IF found = {} THEN rejected(ErrNoArmiesToRaise)
       ELSE IF armySize > c.MaxArmiesPerTerritory THEN rejected(ErrMaxArmies)
       ELSE LET upd == UpdateHoldingArmySize(db, Territories[territory].Abbreviation,
                                             armySize + 1, FALSE)
            IN IF upd.err # Nil THEN rejected(upd.err) ELSE upd

\* RaiseAction.DoAction
RaiseDoAction(db, c, ra) ==
    LET territory == ResolveTerritory(ra.Territory)
        found == {v \in ViewAt(db.nations, db.holdings, Territories[territory].Abbreviation)
                    : v.player = ra.User}
        armySize == (CHOOSE v \in found : TRUE).army_size
        rejected(err) == [db |-> db, err |-> err]
    IN IF ValidateUser(ra.User, db.nations) # Nil
       THEN rejected(ValidateUser(ra.User, db.nations))
       ELSE IF ra.Territory = "" THEN rejected(ErrNoTargetTerritory)
       ELSE IF territory = 0 THEN rejected(ErrUnrecognizedTerritory)
       ELSE IF found = {} THEN rejected(ErrNoArmiesToRaise)
       ELSE IF armySize = c.MaxArmiesPerTerritory THEN rejected(ErrMaxArmies)
       ELSE LET upd == UpdateHoldingArmySize(db, Territories[territory].Abbreviation,
                                             armySize + 1, FALSE)
            IN IF upd.err # Nil THEN rejected(upd.err) ELSE upd

\* RaiseAction.DoAction in a process whose reads, made before the
\* transaction of UpdateHoldingArmySize, saw the tables seen, and whose
\* transaction runs on the tables db
RaiseDoActionAfter(db, seen, c, ra) ==
    LET territory == ResolveTerritory(ra.Territory)
        found == {v \in ViewAt(seen.nations, seen.holdings,
                               Territories[territory].Abbreviation)
                    : v.player = ra.User}
        armySize == (CHOOSE v \in found : TRUE).army_size
        rejected(err) == [db |-> db, err |-> err]
    IN IF ValidateUser(ra.User, seen.nations) # Nil
       THEN rejected(ValidateUser(ra.User, seen.nations))
       ELSE IF ra.Territory = "" THEN rejected(ErrNoTargetTerritory)
       ELSE IF territory = 0 THEN rejected(ErrUnrecognizedTerritory)
       ELSE IF found = {} THEN rejected(ErrNoArmiesToRaise)
       ELSE IF armySize = c.MaxArmiesPerTerritory THEN rejected(ErrMaxArmies)
       ELSE LET upd == UpdateHoldingArmySize(db, Territories[territory].Abbreviation,
                                             armySize + 1, FALSE)
            IN IF upd.err # Nil THEN rejected(upd.err) ELSE upd

(***************************************************************************)
(* attack.go                                                               *)
(***************************************************************************)
Min(a, b) == IF a <= b THEN a ELSE b
Max(a, b) == IF a >= b THEN a ELSE b
Abs(a) == IF a < 0 THEN -a ELSE a

\* math.Floor(0.5*float64(x) + float64(k)) for a die roll x >= 1
HalfFloor(x, k) == (x \div 2) + k

\* attackCalculation without the critical failure of a die roll of 1
attackCalculationNoCritical(attacking, defending, x) ==
    LET success == x > (defending - attacking) * 2 + 10
        won == HalfFloor(x, attacking - defending - 5)
        lost == -HalfFloor(x, defending - attacking - 5)
    IN IF attacking <= 0 \/ defending <= 0
       THEN [x |-> 0, losses |-> 0, err |-> ErrInvalidArmySizes]
       ELSE IF success
       THEN [x |-> x, losses |-> Min(IF won = 0 THEN 1 ELSE won, defending), err |-> Nil]
       ELSE [x |-> x, losses |-> Max(lost, -attacking), err |-> Nil]

\* attackCalculation leaving a successful attack's loss of 0 at 0
attackCalculationNoMinimum(attacking, defending, x) ==
    LET success == x > (defending - attacking) * 2 + 10
        won == HalfFloor(x, attacking - defending - 5)
        lost == -HalfFloor(x, defending - attacking - 5)
    IN IF attacking <= 0 \/ defending <= 0
       THEN [x |-> 0, losses |-> 0, err |-> ErrInvalidArmySizes]
       ELSE IF success
       THEN [x |-> x, losses |-> Min(won, defending), err |-> Nil]
       ELSE [x |-> x,
             losses |-> Max(IF x = 1 /\ lost >= 0 THEN -1 ELSE lost, -attacking),
             err |-> Nil]

\* attackCalculation refusing only forces below 0
attackCalculationZeroForces(attacking, defending, x) ==
    LET success == x > (defending - attacking) * 2 + 10
        won == HalfFloor(x, attacking - defending - 5)
        lost == -HalfFloor(x, defending - attacking - 5)
    IN IF attacking < 0 \/ defending < 0
       THEN [x |-> 0, losses |-> 0, err |-> ErrInvalidArmySizes]
       ELSE IF success
       THEN [x |-> x, losses |-> Min(IF won = 0 THEN 1 ELSE won, defending), err |-> Nil]
       ELSE [x |-> x,
             losses |-> Max(IF x = 1 /\ lost >= 0 THEN -1 ELSE lost, -attacking),
             err |-> Nil]

\* attackCalculation; x is randInt(20) + 1
attackCalculation(attacking, defending, x) ==
    LET success == x > (defending - attacking) * 2 + 10
        won == HalfFloor(x, attacking - defending - 5)
        lost == -HalfFloor(x, defending - attacking - 5)
    IN IF attacking <= 0 \/ defending <= 0
       THEN [x |-> 0, losses |-> 0, err |-> ErrInvalidArmySizes]
       ELSE IF success
       THEN [x |-> x, losses |-> Min(IF won = 0 THEN 1 ELSE won, defending), err |-> Nil]
       ELSE [x |-> x,
             losses |-> Max(IF x = 1 /\ lost >= 0 THEN -1 ELSE lost, -attacking),
             err |-> Nil]

\* the army sizes doNormalAttack reads before the die roll, and the error
\* it returns when one of them is 0
AttackForces(db, aa, attackingTerritory, defendingTerritory) ==
    LET own == {v \in ViewAt(db.nations, db.holdings, attackingTerritory.Abbreviation)
                    : v.player = aa.User}
        theirs == ViewAt(db.nations, db.holdings, defendingTerritory.Abbreviation)
        attacking == IF own = {} THEN 0 ELSE (CHOOSE v \in own : TRUE).army_size
        defending == IF theirs = {} THEN 0 ELSE (CHOOSE v \in theirs : TRUE).army_size
    IN [attacking |-> attacking, defending |-> defending,
        err |-> IF attacking = 0 THEN ErrNoAttackingArmies
                ELSE IF defending = 0 THEN ErrNoDefendingArmies
                ELSE Nil]

\* AttackAction.doNormalAttack calling UpdateHoldingArmySize with
\* deleteNationIfNoTerritories false
doNormalAttackKeepsNation(db, aa, attackingTerritory, defendingTerritory, x) ==
    LET forces == AttackForces(db, aa, attackingTerritory, defendingTerritory)
        attacking == forces.attacking
        defending == forces.defending
        calc == attackCalculation(attacking, defending, x)
        defenderLosses == Min(calc.losses, defending)
        attackerLosses == Min(Abs(calc.losses), attacking)
        upd == IF calc.losses > 0
               THEN UpdateHoldingArmySize(db, defendingTerritory.Abbreviation,
                                          defending - defenderLosses, FALSE)
               ELSE UpdateHoldingArmySize(db, attackingTerritory.Abbreviation,
                                          attacking - attackerLosses, FALSE)
        rejected(err) == [db |-> db, err |-> err]
    IN IF forces.err # Nil THEN rejected(forces.err)
       ELSE IF calc.err # Nil THEN rejected(calc.err)
       ELSE IF upd.err # Nil THEN rejected(upd.err)
       ELSE upd

\* AttackAction.doNormalAttack handing a territory that has lost all its
\* defenders to the attacker, with one army
doNormalAttackCaptures(db, aa, attackingTerritory, defendingTerritory, x) ==
    LET forces == AttackForces(db, aa, attackingTerritory, defendingTerritory)
        attacking == forces.attacking
        defending == forces.defending
        calc == attackCalculation(attacking, defending, x)
        defenderLosses == Min(calc.losses, defending)
        attackerLosses == Min(Abs(calc.losses), attacking)
        captured == {[territory |-> defendingTerritory.Abbreviation,
                      nation_id |-> n.id, army_size |-> 1]
                        : n \in NationsOfPlayer(db.nations, aa.User)}
        upd == IF calc.losses > 0
               THEN IF defending - defenderLosses = 0
                    THEN [db |-> [db EXCEPT !.holdings =
                                    {h \in db.holdings :
                                        h.territory # defendingTerritory.Abbreviation}
                                    \cup captured],
                          err |-> Nil]
                    ELSE UpdateHoldingArmySize(db, defendingTerritory.Abbreviation,
                                               defending - defenderLosses, TRUE)
               ELSE UpdateHoldingArmySize(db, attackingTerritory.Abbreviation,
                                          attacking - attackerLosses, TRUE)
        rejected(err) == [db |-> db, err |-> err]
    IN IF forces.err # Nil THEN rejected(forces.err)
       ELSE IF calc.err # Nil THEN rejected(calc.err)
       ELSE IF upd.err # Nil THEN rejected(upd.err)
       ELSE upd

\* AttackAction.doNormalAttack taking the magnitude of the loss from both
\* holdings
doNormalAttackBothSides(db, aa, attackingTerritory, defendingTerritory, x) ==
    LET forces == AttackForces(db, aa, attackingTerritory, defendingTerritory)
        attacking == forces.attacking
        defending == forces.defending
        calc == attackCalculation(attacking, defending, x)
        defenderLosses == Min(Abs(calc.losses), defending)
        attackerLosses == Min(Abs(calc.losses), attacking)
        first == UpdateHoldingArmySize(db, defendingTerritory.Abbreviation,
                                       defending - defenderLosses, TRUE)
        upd == UpdateHoldingArmySize(first.db, attackingTerritory.Abbreviation,
                                     attacking - attackerLosses, TRUE)
        rejected(err) == [db |-> db, err |-> err]
    IN IF forces.err # Nil THEN rejected(forces.err)
       ELSE IF calc.err # Nil THEN rejected(calc.err)
       ELSE IF first.err # Nil THEN rejected(first.err)
       ELSE IF upd.err # Nil THEN rejected(upd.err)
       ELSE upd

\* AttackAction.doNormalAttack taking every loss from the attacking holding
doNormalAttackOnAttacker(db, aa, attackingTerritory, defendingTerritory, x) ==
    LET forces == AttackForces(db, aa, attackingTerritory, defendingTerritory)
        attacking == forces.attacking
        defending == forces.defending
        calc == attackCalculation(attacking, defending, x)
        attackerLosses == Min(Abs(calc.losses), attacking)
        upd == UpdateHoldingArmySize(db, attackingTerritory.Abbreviation,
                                     attacking - attackerLosses, TRUE)
        rejected(err) == [db |-> db, err |-> err]
    IN IF forces.err # Nil THEN rejected(forces.err)
       ELSE IF calc.err # Nil THEN rejected(calc.err)
       ELSE IF upd.err # Nil THEN rejected(upd.err)
       ELSE upd

\* AttackAction.doNormalAttack
doNormalAttack(db, aa, attackingTerritory, defendingTerritory, x) ==
    LET forces == AttackForces(db, aa, attackingTerritory, defendingTerritory)
        attacking == forces.attacking
        defending == forces.defending
        calc == attackCalculation(attacking, defending, x)
        defenderLosses == Min(calc.losses, defending)
        attackerLosses == Min(Abs(calc.losses), attacking)
        upd == IF calc.losses > 0
               THEN UpdateHoldingArmySize(db, defendingTerritory.Abbreviation,
                                          defending - defenderLosses, TRUE)
               ELSE UpdateHoldingArmySize(db, attackingTerritory.Abbreviation,
                                          attacking - attackerLosses, TRUE)
        rejected(err) == [db |-> db, err |-> err]
    IN IF forces.err # Nil THEN rejected(forces.err)
       ELSE IF calc.err # Nil THEN rejected(calc.err)
       ELSE IF upd.err # Nil THEN rejected(upd.err)
       ELSE upd

\* the AttackActionResult doNormalAttack returns with a nil error
AttackActionResult(db, aa, x) ==
    LET attackingTerritory == Territories[ResolveTerritory(aa.AttackingTerritory)]
        defendingTerritory == Territories[ResolveTerritory(aa.DefendingTerritory)]
        forces == AttackForces(db, aa, attackingTerritory, defendingTerritory)
        calc == attackCalculation(forces.attacking, forces.defending, x)
        defenderLosses == IF calc.losses > 0 THEN Min(calc.losses, forces.defending) ELSE 0
        upd == doNormalAttack(db, aa, attackingTerritory, defendingTerritory, x)
    IN [DieRoll |-> calc.x,
        Attacking |-> forces.attacking,
        Defending |-> forces.defending,
        Losses |-> defenderLosses,
        NationRemoved |-> upd.db.nations # db.nations]

\* AttackAction.doAttackWithCounter
doAttackWithCounter(db, aa) == [db |-> db, err |-> ErrCounterattack]

\* the checks of AttackAction.DoAction without the check of the neighbors
AttackValidateAnywhere(db, aa) ==
    LET attackingTerritory == ResolveTerritory(aa.AttackingTerritory)
        defendingTerritory == ResolveTerritory(aa.DefendingTerritory)
    IN IF ValidateUser(aa.User, db.nations) # Nil THEN ValidateUser(aa.User, db.nations)
       ELSE IF attackingTerritory = 0 THEN ErrUnrecognizedTerritory
       ELSE IF defendingTerritory = 0 THEN ErrUnrecognizedTerritory
       ELSE IF attackingTerritory = defendingTerritory THEN ErrFriendlyFire
       ELSE Nil

\* the checks of AttackAction.DoAction before it dispatches
AttackValidate(db, aa) ==
    LET attackingTerritory == ResolveTerritory(aa.AttackingTerritory)
        defendingTerritory == ResolveTerritory(aa.DefendingTerritory)
    IN IF ValidateUser(aa.User, db.nations) # Nil THEN ValidateUser(aa.User, db.nations)
       ELSE IF attackingTerritory = 0 THEN ErrUnrecognizedTerritory
       ELSE IF defendingTerritory = 0 THEN ErrUnrecognizedTerritory
       ELSE IF attackingTerritory = defendingTerritory THEN ErrFriendlyFire
       ELSE IF ~IsNeighboring(Territories[attackingTerritory], aa.DefendingTerritory)
       THEN ErrNotNeighboring
       ELSE Nil

\* AttackAction.DoAction
AttackDoAction(db, c, aa, x) ==
    IF AttackValidate(db, aa) # Nil THEN [db |-> db, err |-> AttackValidate(db, aa)]
    ELSE IF c.DoCounterattack THEN doAttackWithCounter(db, aa)
    ELSE doNormalAttack(db, aa, Territories[ResolveTerritory(aa.AttackingTerritory)],
                        Territories[ResolveTerritory(aa.DefendingTerritory)], x)

\* whether AttackAction.DoAction gets as far as randInt
AttackRolls(db, c, aa) ==
    /\ AttackValidate(db, aa) = Nil
    /\ ~c.DoCounterattack
    /\ AttackForces(db, aa, Territories[ResolveTerritory(aa.AttackingTerritory)],
                    Territories[ResolveTerritory(aa.DefendingTerritory)]).err = Nil

\* AttackAction.DoAction in a process whose reads, made before the
\* transaction of UpdateHoldingArmySize, saw the tables seen, and whose
\* transaction runs on the tables db
AttackDoActionAfter(db, seen, c, aa, x) ==
    LET attackingTerritory == Territories[ResolveTerritory(aa.AttackingTerritory)]
        defendingTerritory == Territories[ResolveTerritory(aa.DefendingTerritory)]
        forces == AttackForces(seen, aa, attackingTerritory, defendingTerritory)
        attacking == forces.attacking
        defending == forces.defending
        calc == attackCalculation(attacking, defending, x)
        defenderLosses == Min(calc.losses, defending)
        attackerLosses == Min(Abs(calc.losses), attacking)
        upd == IF calc.losses > 0
               THEN UpdateHoldingArmySize(db, defendingTerritory.Abbreviation,
                                          defending - defenderLosses, TRUE)
               ELSE UpdateHoldingArmySize(db, attackingTerritory.Abbreviation,
                                          attacking - attackerLosses, TRUE)
        rejected(err) == [db |-> db, err |-> err]
    IN IF AttackValidate(seen, aa) # Nil THEN rejected(AttackValidate(seen, aa))
       ELSE IF c.DoCounterattack THEN rejected(ErrCounterattack)
       ELSE IF forces.err # Nil THEN rejected(forces.err)
       ELSE IF calc.err # Nil THEN rejected(calc.err)
       ELSE IF upd.err # Nil THEN rejected(upd.err)
       ELSE upd

(***************************************************************************)
(* move.go                                                                 *)
(***************************************************************************)
\* INSERT INTO holdings (nation_id, territory, army_size)
\*     VALUES ((SELECT id FROM nations WHERE player = ?), ?, ?)
InsertHoldingForPlayer(db, player, territory, army_size) ==
    LET ids == {r.id : r \in NationsOfPlayer(db.nations, player)}
    IN IF ids = {} \/ ~ArmySizeCheck(army_size) \/ ~TerritoryUnique(db.holdings, territory)
       THEN [db |-> db, err |-> ErrSqliteConstraint]
       ELSE [db |-> [db EXCEPT !.holdings =
                        @ \cup {[territory |-> territory,
                                 nation_id |-> CHOOSE id \in ids : TRUE,
                                 army_size |-> army_size]}],
             err |-> Nil]

\* MoveAction.DoAction up to the transaction without the check of the
\* destination's player: armies are moved into the holding of another player
MoveValidateIntoOccupied(db, c, ma) ==
    LET sourceTerritory == ResolveTerritory(ma.Source)
        destTerritory == ResolveTerritory(ma.Destination)
        src == ViewAt(db.nations, db.holdings, Territories[sourceTerritory].Abbreviation)
        armiesInSourceTerritory == (CHOOSE v \in src : TRUE).army_size
        fromPlayer == (CHOOSE v \in src : TRUE).player
        Armies == IF ma.Armies <= 0 THEN armiesInSourceTerritory ELSE ma.Armies
        dst == ViewAt(db.nations, db.holdings, Territories[destTerritory].Abbreviation)
        armiesInDestTerritory == IF dst = {} THEN 0 ELSE (CHOOSE v \in dst : TRUE).army_size
        destinationPlayer == IF dst = {} THEN "" ELSE (CHOOSE v \in dst : TRUE).player
        rejected(err) == [err |-> err]
    IN IF ma.Destination = "" \/ ma.Source = ma.Destination
       THEN rejected(ErrNoTargetTerritory)
       ELSE IF sourceTerritory = 0 THEN rejected(ErrUnrecognizedTerritory)
       ELSE IF destTerritory = 0 THEN rejected(ErrUnrecognizedTerritory)
       ELSE IF src = {} THEN rejected(ErrNoArmiesToMove)
       ELSE IF fromPlayer = Null THEN rejected(ErrScanNull)
       ELSE IF ma.Armies > 0 /\ ma.Armies > armiesInSourceTerritory
       THEN rejected(ErrNotEnoughArmies)
       ELSE IF dst # {} /\ destinationPlayer = Null THEN rejected(ErrScanNull)
       ELSE IF fromPlayer # ma.User THEN rejected(ErrNotControlled)
       ELSE IF armiesInDestTerritory + Armies > c.MaxArmiesPerTerritory
       THEN rejected(ErrWouldExceedMax)
       ELSE [err |-> Nil,
             source |-> Territories[sourceTerritory].Abbreviation,
             dest |-> Territories[destTerritory].Abbreviation,
             armiesInSourceTerritory |-> armiesInSourceTerritory,
             armiesInDestTerritory |-> armiesInDestTerritory,
             Armies |-> Armies]

\* MoveAction.DoAction up to the transaction without the check of the cap
MoveValidateUncapped(db, c, ma) ==
    LET sourceTerritory == ResolveTerritory(ma.Source)
        destTerritory == ResolveTerritory(ma.Destination)
        src == ViewAt(db.nations, db.holdings, Territories[sourceTerritory].Abbreviation)
        armiesInSourceTerritory == (CHOOSE v \in src : TRUE).army_size
        fromPlayer == (CHOOSE v \in src : TRUE).player
        Armies == IF ma.Armies <= 0 THEN armiesInSourceTerritory ELSE ma.Armies
        dst == ViewAt(db.nations, db.holdings, Territories[destTerritory].Abbreviation)
        armiesInDestTerritory == IF dst = {} THEN 0 ELSE (CHOOSE v \in dst : TRUE).army_size
        destinationPlayer == IF dst = {} THEN "" ELSE (CHOOSE v \in dst : TRUE).player
        rejected(err) == [err |-> err]
    IN IF ma.Destination = "" \/ ma.Source = ma.Destination
       THEN rejected(ErrNoTargetTerritory)
       ELSE IF sourceTerritory = 0 THEN rejected(ErrUnrecognizedTerritory)
       ELSE IF destTerritory = 0 THEN rejected(ErrUnrecognizedTerritory)
       ELSE IF src = {} THEN rejected(ErrNoArmiesToMove)
       ELSE IF fromPlayer = Null THEN rejected(ErrScanNull)
       ELSE IF ma.Armies > 0 /\ ma.Armies > armiesInSourceTerritory
       THEN rejected(ErrNotEnoughArmies)
       ELSE IF dst # {} /\ destinationPlayer = Null THEN rejected(ErrScanNull)
       ELSE IF fromPlayer # ma.User THEN rejected(ErrNotControlled)
       ELSE IF armiesInDestTerritory > 0 /\ destinationPlayer # ma.User
       THEN rejected(ErrTerritoryAlreadyOccupied)
       ELSE [err |-> Nil,
             source |-> Territories[sourceTerritory].Abbreviation,
             dest |-> Territories[destTerritory].Abbreviation,
             armiesInSourceTerritory |-> armiesInSourceTerritory,
             armiesInDestTerritory |-> armiesInDestTerritory,
             Armies |-> Armies]

\* MoveAction.DoAction up to the transaction: what it reads and the error
\* it rejects the move with
MoveValidate(db, c, ma) ==
    LET sourceTerritory == ResolveTerritory(ma.Source)
        destTerritory == ResolveTerritory(ma.Destination)
        src == ViewAt(db.nations, db.holdings, Territories[sourceTerritory].Abbreviation)
        armiesInSourceTerritory == (CHOOSE v \in src : TRUE).army_size
        fromPlayer == (CHOOSE v \in src : TRUE).player
        Armies == IF ma.Armies <= 0 THEN armiesInSourceTerritory ELSE ma.Armies
        dst == ViewAt(db.nations, db.holdings, Territories[destTerritory].Abbreviation)
        armiesInDestTerritory == IF dst = {} THEN 0 ELSE (CHOOSE v \in dst : TRUE).army_size
        destinationPlayer == IF dst = {} THEN "" ELSE (CHOOSE v \in dst : TRUE).player
        rejected(err) == [err |-> err]
    IN IF ma.Destination = "" \/ ma.Source = ma.Destination
       THEN rejected(ErrNoTargetTerritory)
       ELSE IF sourceTerritory = 0 THEN rejected(ErrUnrecognizedTerritory)
       ELSE IF destTerritory = 0 THEN rejected(ErrUnrecognizedTerritory)
       ELSE IF src = {} THEN rejected(ErrNoArmiesToMove)
       ELSE IF fromPlayer = Null THEN rejected(ErrScanNull)
       ELSE IF ma.Armies > 0 /\ ma.Armies > armiesInSourceTerritory
       THEN rejected(ErrNotEnoughArmies)
       ELSE IF dst # {} /\ destinationPlayer = Null THEN rejected(ErrScanNull)
       ELSE IF fromPlayer # ma.User THEN rejected(ErrNotControlled)
       ELSE IF armiesInDestTerritory > 0 /\ destinationPlayer # ma.User
       THEN rejected(ErrTerritoryAlreadyOccupied)
       ELSE IF armiesInDestTerritory + Armies > c.MaxArmiesPerTerritory
       THEN rejected(ErrWouldExceedMax)
       ELSE [err |-> Nil,
             source |-> Territories[sourceTerritory].Abbreviation,
             dest |-> Territories[destTerritory].Abbreviation,
             armiesInSourceTerritory |-> armiesInSourceTerritory,
             armiesInDestTerritory |-> armiesInDestTerritory,
             Armies |-> Armies]

\* the invasion check: an unclaimed destination is defended by 1 army
InvasionCheck(c, armiesInDestTerritory) ==
    armiesInDestTerritory = 0 /\ c.UnclaimedTerritoriesHave1Army

\* MoveAction.DoAction from db.Begin on, taking from the source only the
\* armies that arrived in the destination
MoveCommitArrivedOnly(db, c, ma, m, x) ==
    LET calc == attackCalculation(m.Armies, 1, x)
        newDestinationArmies ==
            IF InvasionCheck(c, m.armiesInDestTerritory)
            THEN IF calc.losses < 0 THEN m.Armies + calc.losses ELSE m.Armies
            ELSE m.armiesInDestTerritory + m.Armies
        arrived ==
            IF m.armiesInDestTerritory = 0 /\ newDestinationArmies > 0
            THEN InsertHoldingForPlayer(db, ma.User, m.dest, newDestinationArmies)
            ELSE IF newDestinationArmies > 0
            THEN UpdateHoldingArmySize(db, m.dest, newDestinationArmies, FALSE)
            ELSE [db |-> db, err |-> Nil]
        left == UpdateHoldingArmySize(arrived.db, m.source,
                                      m.armiesInSourceTerritory
                                          - (newDestinationArmies - m.armiesInDestTerritory),
                                      TRUE)
        rejected(err) == [db |-> db, err |-> err]
    IN IF InvasionCheck(c, m.armiesInDestTerritory) /\ calc.err # Nil
       THEN rejected(calc.err)
       ELSE IF arrived.err # Nil THEN rejected(arrived.err)
       ELSE IF left.err # Nil THEN rejected(left.err)
       ELSE left

\* MoveAction.DoAction from db.Begin on, for a validated move m; x is the die
\* roll of the invasion check
MoveCommit(db, c, ma, m, x) ==
    LET calc == attackCalculation(m.Armies, 1, x)
        newDestinationArmies ==
            IF InvasionCheck(c, m.armiesInDestTerritory)
            THEN IF calc.losses < 0 THEN m.Armies + calc.losses ELSE m.Armies
            ELSE m.armiesInDestTerritory + m.Armies
        arrived ==
            IF m.armiesInDestTerritory = 0 /\ newDestinationArmies > 0
            THEN InsertHoldingForPlayer(db, ma.User, m.dest, newDestinationArmies)
            ELSE IF newDestinationArmies > 0
            THEN UpdateHoldingArmySize(db, m.dest, newDestinationArmies, FALSE)
            ELSE [db |-> db, err |-> Nil]
        left == UpdateHoldingArmySize(arrived.db, m.source,
                                      m.armiesInSourceTerritory - m.Armies, TRUE)
        rejected(err) == [db |-> db, err |-> err]
    IN IF InvasionCheck(c, m.armiesInDestTerritory) /\ calc.err # Nil
       THEN rejected(calc.err)
       ELSE IF arrived.err # Nil THEN rejected(arrived.err)
       ELSE IF left.err # Nil THEN rejected(left.err)
       ELSE left

\* MoveAction.DoAction
MoveDoAction(db, c, ma, x) ==
    LET m == MoveValidate(db, c, ma)
    IN IF m.err # Nil THEN [db |-> db, err |-> m.err]
       ELSE MoveCommit(db, c, ma, m, x)

\* whether MoveAction.DoAction gets as far as randInt
MoveRolls(db, c, ma) ==
    LET m == MoveValidate(db, c, ma)
    IN m.err = Nil /\ InvasionCheck(c, m.armiesInDestTerritory)

\* the MoveActionResult of a MoveAction.DoAction that returns no error
MoveActionResult(db, c, ma, x) ==
    LET m == MoveValidate(db, c, ma)
        calc == attackCalculation(m.Armies, 1, x)
        newDestinationArmies ==
            IF InvasionCheck(c, m.armiesInDestTerritory)
            THEN IF calc.losses < 0 THEN m.Armies + calc.losses ELSE m.Armies
            ELSE m.armiesInDestTerritory + m.Armies
        after == MoveCommit(db, c, ma, m, x).db
    IN [failedMove |-> newDestinationArmies = 0,
        nationRemoved |-> after.nations # db.nations]

\* MoveAction.DoAction in a process whose reads, made before db.Begin, saw
\* the tables seen, and whose transaction runs on the tables db
MoveDoActionAfter(db, seen, c, ma, x) ==
    LET m == MoveValidate(seen, c, ma)
    IN IF m.err # Nil THEN [db |-> db, err |-> m.err]
       ELSE MoveCommit(db, c, ma, m, x)

(***************************************************************************)
(* The game: a configuration is loaded, then actions are processed one at  *)
(* a time.                                                                 *)
(***************************************************************************)
\* randInt(20) + 1
DieRolls == 1..20
\* the minimumNationsToStart of GetTestingConfig
TestingMinimumNationsToStart == 2

\* the configurations GetConfig accepts: validateRequiredValues leaves both
\* army settings >= 1
Configs ==
    {c \in [InitialArmies : 1..MaxInitialArmies,
            MaxArmiesPerTerritory : 1..MaxCap,
            UnclaimedTerritoriesHave1Army : BOOLEAN,
            DoCounterattack : BOOLEAN,
            MinimumNationsToStart : {TestingMinimumNationsToStart}] :
        c.DoCounterattack =>
            /\ c.InitialArmies = 1
            /\ c.MaxArmiesPerTerritory = 1
            /\ ~c.UnclaimedTerritoriesHave1Army}

\* no action is being processed
NoAction == [kind |-> "none"]

store == [nations |-> nations, holdings |-> holdings]

\* no call of attackCalculation on its own: the forces and the result of
\* a process that runs an Action
NoForces == [attacking |-> 0, defending |-> 0]
NotCalled == [x |-> 0, losses |-> 0, err |-> "not called"]

\* no process between its reads and its writes
NoPending == [kind |-> "none"]

\* no function of pkg/turns has been called
NotReturned == [fn |-> "none"]

Init ==
    /\ cfg \in Configs
    /\ nations = {}
    /\ holdings = {}
    /\ nationSeq = 0
    /\ lastAction = NoAction
    /\ lastErr = Nil
    /\ lastRoll = 0
    /\ battle = NoForces
    /\ outcome = NotCalled
    /\ pending = NoPending
    /\ actions = <<>>
    /\ turnEnds = <<>>
    /\ returned = NotReturned

JoinAction(User, Nation, Territory) ==
    [kind |-> "join", User |-> User, Nation |-> Nation, Territory |-> Territory]

JoinStep(ja, color) ==
    \E r \in {JoinDoAction(store, nationSeq, cfg, ja, color)} :
       /\ lastAction = NoAction
       /\ r.seq <= MaxNationId
       /\ nations' = r.db.nations
       /\ holdings' = r.db.holdings
       /\ nationSeq' = r.seq
       /\ lastAction' = ja
       /\ lastErr' = r.err
       /\ lastRoll' = 0
       /\ UNCHANGED <<battle, outcome, pending, actions, turnEnds, returned>>
       /\ UNCHANGED cfg

Join ==
    /\ lastAction = NoAction
    /\ \E User \in Users, Nation \in NationNames, Territory \in TerritoryQueries,
       color \in RandomColors :
        JoinStep(JoinAction(User, Nation, Territory), color)

ColorAction(User, Color) == [kind |-> "color", User |-> User, Color |-> Color]

ColorStep(ca) ==
    \E r \in {ColorDoAction(store, ca)} :
       /\ lastAction = NoAction
       /\ nations' = r.db.nations
       /\ holdings' = r.db.holdings
       /\ lastAction' = ca
       /\ lastErr' = r.err
       /\ lastRoll' = 0
       /\ UNCHANGED <<battle, outcome, pending, actions, turnEnds, returned>>
       /\ UNCHANGED <<cfg, nationSeq>>

Color ==
    /\ lastAction = NoAction
    /\ \E User \in Users, expr \in ColorExprs : ColorStep(ColorAction(User, expr))

RaiseAction(User, Territory) == [kind |-> "raise", User |-> User, Territory |-> Territory]

RaiseStep(ra) ==
    \E r \in {RaiseDoAction(store, cfg, ra)} :
       /\ lastAction = NoAction
       /\ \A h \in r.db.holdings : h.army_size <= MaxArmySize
       /\ nations' = r.db.nations
       /\ holdings' = r.db.holdings
       /\ lastAction' = ra
       /\ lastErr' = r.err
       /\ lastRoll' = 0
       /\ UNCHANGED <<battle, outcome, pending, actions, turnEnds, returned>>
       /\ UNCHANGED <<cfg, nationSeq>>

Raise ==
    /\ lastAction = NoAction
    /\ \E User \in Users, Territory \in TerritoryQueries :
        RaiseStep(RaiseAction(User, Territory))

MoveAction(User, Source, Destination, Armies) ==
    [kind |-> "move", User |-> User, Source |-> Source, Destination |-> Destination, Armies |-> Armies]

MoveStep(ma, x) ==
    \E r \in {MoveDoAction(store, cfg, ma, x)} :
       /\ lastAction = NoAction
       /\ nations' = r.db.nations
       /\ holdings' = r.db.holdings
       /\ lastAction' = ma
       /\ lastErr' = r.err
       /\ lastRoll' = x
       /\ UNCHANGED <<battle, outcome, pending, actions, turnEnds, returned>>
       /\ UNCHANGED <<cfg, nationSeq>>

Move ==
    /\ lastAction = NoAction
    /\ \E User \in Users, Source \in RouteQueries, Destination \in RouteQueries,
       Armies \in 0..MaxMoveArmies :
        LET ma == MoveAction(User, Source, Destination, Armies)
        IN \E x \in (IF MoveRolls(store, cfg, ma) THEN DieRolls ELSE {0}) :
            MoveStep(ma, x)

AttackAction(User, AttackingTerritory, DefendingTerritory) ==
    [kind |-> "attack", User |-> User, AttackingTerritory |-> AttackingTerritory,
     DefendingTerritory |-> DefendingTerritory]

AttackStep(aa, x) ==
    \E r \in {AttackDoAction(store, cfg, aa, x)} :
       /\ lastAction = NoAction
       /\ nations' = r.db.nations
       /\ holdings' = r.db.holdings
       /\ lastAction' = aa
       /\ lastErr' = r.err
       /\ lastRoll' = x
       /\ UNCHANGED <<battle, outcome, pending, actions, turnEnds, returned>>
       /\ UNCHANGED <<cfg, nationSeq>>

Attack ==
    /\ lastAction = NoAction
    /\ \E User \in Users, AttackingTerritory \in RouteQueries,
       DefendingTerritory \in RouteQueries :
        LET aa == AttackAction(User, AttackingTerritory, DefendingTerritory)
        IN \E x \in (IF AttackRolls(store, cfg, aa) THEN DieRolls ELSE {0}) :
            AttackStep(aa, x)

\* main: DoAction has returned and the process ends; the next action is
\* processed by a new process, which finds only the store
Exit ==
    /\ lastAction # NoAction
    /\ lastAction' = NoAction
    /\ lastErr' = Nil
    /\ lastRoll' = 0
    /\ UNCHANGED <<battle, outcome, pending, actions, turnEnds, returned>>
    /\ UNCHANGED <<cfg, nations, holdings, nationSeq>>

Next == Join \/ Color \/ Raise \/ Move \/ Attack \/ Exit

Spec == Init /\ [][Next]_vars

(***************************************************************************)
(* Battles: games in progress with armies of up to MaxBattleArmies, in     *)
(* which armies are moved and attacks are made.                            *)
(***************************************************************************)
\* largest maxArmiesPerTerritory, and so largest army, of these games
MaxBattleArmies == 6

\* configurations with a cap of up to MaxBattleArmies
BattleConfigs ==
    [InitialArmies : {1},
     MaxArmiesPerTerritory : 1..MaxBattleArmies,
     UnclaimedTerritoriesHave1Army : BOOLEAN,
     DoCounterattack : {FALSE},
     MinimumNationsToStart : {TestingMinimumNationsToStart}]

\* the nations of alice and bob as Join registers them
BattleNations ==
    {[id |-> 1, country_name |-> "alice's Nation", player |-> "alice", color |-> "ff0000"],
     [id |-> 2, country_name |-> "bob's Nation", player |-> "bob", color |-> "00ff00"]}

\* alice holds CA, raised to some size up to the cap; NV is unclaimed, or
\* alice's as well, or bob's; bob is in the game when he holds NV
BattleInit ==
    /\ cfg \in BattleConfigs
    /\ \E s \in 1..cfg.MaxArmiesPerTerritory, d \in 0..cfg.MaxArmiesPerTerritory,
          owner \in 1..2 :
          /\ holdings = {[territory |-> "CA", nation_id |-> 1, army_size |-> s]}
                          \cup (IF d = 0 THEN {}
                                ELSE {[territory |-> "NV", nation_id |-> owner,
                                       army_size |-> d]})
          /\ nations = {r \in BattleNations : \E h \in holdings : h.nation_id = r.id}
          /\ nationSeq = Cardinality(nations)
    /\ lastAction = NoAction
    /\ lastErr = Nil
    /\ lastRoll = 0
    /\ battle = NoForces
    /\ outcome = NotCalled
    /\ pending = NoPending
    /\ actions = <<>>
    /\ turnEnds = <<>>
    /\ returned = NotReturned

\* the players and the territories of these games
BattleUsers == {"alice", "bob"}
BattleQueries == {"CA", "NV", "UT"}

\* a Move of all armies or of one
BattleMove ==
    /\ lastAction = NoAction
    /\ \E User \in BattleUsers, Source \in BattleQueries, Destination \in BattleQueries,
          Armies \in 0..1 :
        LET ma == MoveAction(User, Source, Destination, Armies)
        IN \E x \in (IF MoveRolls(store, cfg, ma) THEN DieRolls ELSE {0}) :
            MoveStep(ma, x)

BattleAttack ==
    /\ lastAction = NoAction
    /\ \E User \in BattleUsers, AttackingTerritory \in BattleQueries,
          DefendingTerritory \in BattleQueries :
        LET aa == AttackAction(User, AttackingTerritory, DefendingTerritory)
        IN \E x \in (IF AttackRolls(store, cfg, aa) THEN DieRolls ELSE {0}) :
            AttackStep(aa, x)

BattleNext == BattleMove \/ BattleAttack \/ Exit

BattleSpec == BattleInit /\ [][BattleNext]_vars

(***************************************************************************)
(* The combat resolver on its own: attackCalculation is called with forces *)
(* from -1 up to the cap, as TestAttackCalculation calls it, and no Action  *)
(* is processed.                                                           *)
(***************************************************************************)
\* the cap validateRequiredValues sets when the configuration has none
DefaultMaxArmiesPerTerritory == 5

\* the results of randInt(max): rand.Intn(max), or the test's value % max
randInt(max) == 0..(max - 1)

\* the configurations the resolver is called under
ResolverConfigs == {c \in BattleConfigs : ~c.UnclaimedTerritoriesHave1Army}

ResolverInit ==
    /\ cfg \in ResolverConfigs
    /\ nations = {}
    /\ holdings = {}
    /\ nationSeq = 0
    /\ lastAction = NoAction
    /\ lastErr = Nil
    /\ lastRoll = 0
    /\ battle \in [attacking : -1..cfg.MaxArmiesPerTerritory,
                   defending : -1..cfg.MaxArmiesPerTerritory]
    /\ outcome = NotCalled
    /\ pending = NoPending
    /\ actions = <<>>
    /\ turnEnds = <<>>
    /\ returned = NotReturned

\* one call of attackCalculation(attacking, defending)
Resolve ==
    /\ \E r \in randInt(20) :
          outcome' = attackCalculation(battle.attacking, battle.defending, r + 1)
    /\ UNCHANGED <<cfg, nations, holdings, nationSeq, lastAction, lastErr, lastRoll,
                   battle, pending, actions, turnEnds, returned>>

ResolverNext == Resolve

ResolverSpec == ResolverInit /\ [][ResolverNext]_vars

(***************************************************************************)
(* Processes at the same time: one process has made the reads of its       *)
(* DoAction, which are made outside every transaction, and has not yet     *)
(* begun the transaction of its writes; up to MaxOthers other processes    *)
(* run their actions in between.                                           *)
(***************************************************************************)
\* the most processes that run between the reads and the writes of one
MaxOthers == 2

\* a cap of 3, no garrisons
ConcurrentConfigs ==
    {c \in BattleConfigs : c.MaxArmiesPerTerritory = 3 /\ ~c.UnclaimedTerritoriesHave1Army}

\* alice holds CA; NV is unclaimed, alice's or bob's; UT is unclaimed or bob's
ConcurrentInit ==
    /\ cfg \in ConcurrentConfigs
    /\ \E s \in 1..2, d \in 0..2, owner \in 1..2, u \in 0..2 :
          /\ holdings = {[territory |-> "CA", nation_id |-> 1, army_size |-> s]}
                          \cup (IF d = 0 THEN {}
                                ELSE {[territory |-> "NV", nation_id |-> owner,
                                       army_size |-> d]})
                          \cup (IF u = 0 THEN {}
                                ELSE {[territory |-> "UT", nation_id |-> 2,
                                       army_size |-> u]})
          /\ nations = {r \in BattleNations : \E h \in holdings : h.nation_id = r.id}
          /\ nationSeq = Cardinality(nations)
    /\ lastAction = NoAction
    /\ lastErr = Nil
    /\ lastRoll = 0
    /\ battle = NoForces
    /\ outcome = NotCalled
    /\ pending = NoPending
    /\ actions = <<>>
    /\ turnEnds = <<>>
    /\ returned = NotReturned

\* the actions the processes are started with
ConcurrentActions ==
    {RaiseAction(u, t) : u \in BattleUsers, t \in BattleQueries}
    \cup {MoveAction(u, s, d, n) : u \in BattleUsers, s \in BattleQueries,
                                   d \in BattleQueries, n \in 0..1}
    \cup {AttackAction(u, a, d) : u \in BattleUsers, a \in BattleQueries,
                                  d \in BattleQueries}

\* the reads of the action's DoAction on the tables db pass all its checks
ReadsPass(db, c, a) ==
    CASE a.kind = "raise" -> RaiseDoAction(db, c, a).err = Nil
      [] a.kind = "move" -> MoveValidate(db, c, a).err = Nil
      [] a.kind = "attack" -> AttackRolls(db, c, a)

\* the die rolls the processes draw: the least, a middle one and the greatest
ConcurrentRolls == {x \in DieRolls : x \in {1, 10, 20}}

\* the die rolls of an action whose reads on db have passed
RollsOf(db, c, a) ==
    CASE a.kind = "raise" -> {0}
      [] a.kind = "move" -> IF MoveRolls(db, c, a) THEN ConcurrentRolls ELSE {0}
      [] a.kind = "attack" -> ConcurrentRolls

\* DoAction of a process that runs alone
RunAction(db, c, a, x) ==
    CASE a.kind = "raise" -> RaiseDoAction(db, c, a)
      [] a.kind = "move" -> MoveDoAction(db, c, a, x)
      [] a.kind = "attack" -> AttackDoAction(db, c, a, x)

\* DoAction of a process whose reads saw the tables seen
RunActionAfter(db, seen, c, a, x) ==
    CASE a.kind = "raise" -> RaiseDoActionAfter(db, seen, c, a)
      [] a.kind = "move" -> MoveDoActionAfter(db, seen, c, a, x)
      [] a.kind = "attack" -> AttackDoActionAfter(db, seen, c, a, x)

\* a process makes the reads of its DoAction, and they pass its checks
BeginAction ==
    /\ pending = NoPending
    /\ \E a \in ConcurrentActions :
          /\ ReadsPass(store, cfg, a)
          /\ pending' = [kind |-> "read", action |-> a, seen |-> store, others |-> <<>>]
    /\ UNCHANGED <<cfg, nations, holdings, nationSeq, lastAction, lastErr, lastRoll,
                   battle, outcome,
                   actions, turnEnds, returned>>

\* another process runs its DoAction, with success
OtherAction ==
    /\ pending.kind = "read"
    /\ Len(pending.others) < MaxOthers
    /\ \E a \in ConcurrentActions :
          /\ ReadsPass(store, cfg, a)
          /\ \E x \in RollsOf(store, cfg, a) :
                \E r \in {RunAction(store, cfg, a, x)} :
                   /\ r.err = Nil
                   /\ nations' = r.db.nations
                   /\ holdings' = r.db.holdings
                   /\ pending' = [pending EXCEPT
                                    !.others = Append(@, [action |-> a, roll |-> x])]
    /\ UNCHANGED <<cfg, nationSeq, lastAction, lastErr, lastRoll, battle, outcome,
                   actions, turnEnds, returned>>

\* the process that has read runs the rest of its DoAction: the die roll and
\* the transaction of its writes
CommitAction ==
    /\ pending.kind = "read"
    /\ \E x \in RollsOf(pending.seen, cfg, pending.action) :
          \E r \in {RunActionAfter(store, pending.seen, cfg, pending.action, x)} :
             /\ nations' = r.db.nations
             /\ holdings' = r.db.holdings
             /\ pending' = [kind |-> "done", action |-> pending.action,
                            seen |-> pending.seen, others |-> pending.others,
                            roll |-> x, err |-> r.err]
    /\ UNCHANGED <<cfg, nationSeq, lastAction, lastErr, lastRoll, battle, outcome,
                   actions, turnEnds, returned>>

ConcurrentNext == BeginAction \/ OtherAction \/ CommitAction

ConcurrentSpec == ConcurrentInit /\ [][ConcurrentNext]_vars

(***************************************************************************)
(* UpdateHoldingArmySize on its own: the tables and the arguments are      *)
(* drawn, and the function is called once.                                 *)
(***************************************************************************)
\* the greatest size UpdateHoldingArmySize is called with
MaxUpdateSize == 2

\* the sizes UpdateHoldingArmySize is called with: one below 0, 0 and those
\* above it
UpdateSizes == {0 - 1} \cup 0..MaxUpdateSize

\* the tables UpdateHoldingArmySize is called on
UpdaterInit == ConcurrentInit

\* the call UpdateHoldingArmySize(db, nil, territory, size, cascade, logger)
UpdateCall(territory, size, deleteNationIfNoTerritories) ==
    [kind |-> "update", territory |-> territory, size |-> size,
     deleteNationIfNoTerritories |-> deleteNationIfNoTerritories]

\* one call of UpdateHoldingArmySize, in its own transaction
Update ==
    /\ lastAction = NoAction
    /\ \E territory \in BattleQueries, size \in UpdateSizes,
          deleteNationIfNoTerritories \in BOOLEAN :
          \E r \in {UpdateHoldingArmySize(store, territory, size,
                                          deleteNationIfNoTerritories)} :
             /\ nations' = r.db.nations
             /\ holdings' = r.db.holdings
             /\ lastErr' = r.err
             /\ lastAction' = UpdateCall(territory, size, deleteNationIfNoTerritories)
    /\ UNCHANGED <<cfg, nationSeq, lastRoll, battle, outcome, pending,
                   actions, turnEnds, returned>>

UpdaterNext == Update

UpdaterSpec == UpdaterInit /\ [][UpdaterNext]_vars

(***************************************************************************)
(* pkg/turns: the actions table, whose rows the application that runs the  *)
(* actions inserts, and the functions that count the actions of the turn.  *)
(***************************************************************************)
\* the latest timestamp of a row
MaxTime == 2
\* the most rows the application inserts
MaxActionRows == 3
\* the largest actionsPerTurnHoldingsDivisor
MaxDivisor == 3
\* the default of actionsPerTurnHoldingsDivisor
DefaultDivisor == 3
\* nation_id NULL: AUTOINCREMENT ids begin at 1
NullId == 0

\* the configurations validateRequiredValues lets through: a divisor above 0
TurnsConfigs ==
    [ActionsPerTurnHoldingsDivisor : 1..MaxDivisor,
     TurnEndsWhenAllPlayersDone : BOOLEAN]

\* math.Ceil(float64(n) / divisor) and SQL CEIL(n / divisor), for a divisor
\* that is a whole number above 0
Ceil(n, divisor) == (n + divisor - 1) \div divisor

\* SELECT MAX(timestamp), for a set of timestamps that is not empty
MaxTimestamp(ts) == CHOOSE m \in ts : \A t \in ts : t <= m

\* the timestamps of v_new_turn_actions
NewTurnTimes(acts) ==
    {acts[i].timestamp : i \in {j \in DOMAIN acts : acts[j].is_new_turn}}

\* SELECT COUNT(*) FROM v_nation_holdings WHERE player = ?
HoldingsCount(db, player) ==
    Cardinality({v \in v_nation_holdings(db.nations, db.holdings) : v.player = player})

\* PlayerActionsPerTurn
PlayerActionsPerTurn(db, c, player) ==
    LET divisor == IF c.ActionsPerTurnHoldingsDivisor <= 0 THEN DefaultDivisor
                   ELSE c.ActionsPerTurnHoldingsDivisor
    IN Ceil(HoldingsCount(db, player), divisor)

\* PlayerActionsRemaining; timestamp > (SELECT MAX(timestamp) ...) is NULL,
\* and no row is counted, when v_new_turn_actions is empty
PlayerActionsRemaining(db, acts, c, player) ==
    LET totalTurns == PlayerActionsPerTurn(db, c, player)
        turnTimes == NewTurnTimes(acts)
        actionsTaken ==
            IF turnTimes = {} THEN 0
            ELSE Cardinality({i \in DOMAIN acts :
                                /\ acts[i].timestamp > MaxTimestamp(turnTimes)
                                /\ ViewPlayer(db.nations, acts[i]) = player})
    IN IF totalTurns = 0 THEN 0 ELSE Min(totalTurns - actionsTaken, 0)

\* EndTurn at the time now: the new-turn row, then each registered handler
EndTurn(acts, ends, now) ==
    [actions |-> Append(acts, [nation_id |-> NullId, action_type |-> "end_turn",
                               is_new_turn |-> TRUE, timestamp |-> now]),
     turnEnds |-> [i \in DOMAIN ends |-> ends[i] + 1]]

\* PlayersWithActionsLeft counting the actions of every turn
PlayersWithActionsLeftAnyTurn(db, acts, ends, c, now) ==
    LET view == v_nation_holdings(db.nations, db.holdings)
        q1 == {[player |-> v.player, nation_id |-> v.nation_id] : v \in view}
        max_actions(g) ==
            Ceil(Cardinality({v \in view : v.player = g.player
                                           /\ v.nation_id = g.nation_id}),
                 c.ActionsPerTurnHoldingsDivisor)
        actions_completed(g) ==
            Cardinality({i \in DOMAIN acts :
                           /\ ViewPlayer(db.nations, acts[i]) # Null
                           /\ ViewPlayer(db.nations, acts[i]) = g.player})
        rows == {g \in q1 : actions_completed(g) < max_actions(g)}
        playerActions ==
            [p \in {g.player : g \in rows} |->
                LET g == CHOOSE r \in rows : r.player = p
                IN [ActionsCompleted |-> actions_completed(g),
                    MaxActions |-> max_actions(g)]]
        ended == EndTurn(acts, ends, now)
    IN IF rows = {} /\ c.TurnEndsWhenAllPlayersDone
       THEN [actions |-> ended.actions, turnEnds |-> ended.turnEnds,
             isNil |-> TRUE, playerActions |-> playerActions]
       ELSE [actions |-> acts, turnEnds |-> ends,
             isNil |-> rows = {}, playerActions |-> playerActions]

\* PlayersWithActionsLeft(nil) at the time now: the tables after it and the
\* map it returns, nil when no row was scanned
PlayersWithActionsLeft(db, acts, ends, c, now) ==
    LET view == v_nation_holdings(db.nations, db.holdings)
        turnTimes == NewTurnTimes(acts)
        since == IF turnTimes = {} THEN 0 ELSE MaxTimestamp(turnTimes)
        q1 == {[player |-> v.player, nation_id |-> v.nation_id] : v \in view}
        max_actions(g) ==
            Ceil(Cardinality({v \in view : v.player = g.player
                                           /\ v.nation_id = g.nation_id}),
                 c.ActionsPerTurnHoldingsDivisor)
        actions_completed(g) ==
            Cardinality({i \in DOMAIN acts :
                           /\ ViewPlayer(db.nations, acts[i]) # Null
                           /\ acts[i].timestamp >= since
                           /\ ViewPlayer(db.nations, acts[i]) = g.player})
        rows == {g \in q1 : actions_completed(g) < max_actions(g)}
        playerActions ==
            [p \in {g.player : g \in rows} |->
                LET g == CHOOSE r \in rows : r.player = p
                IN [ActionsCompleted |-> actions_completed(g),
                    MaxActions |-> max_actions(g)]]
        ended == EndTurn(acts, ends, now)
    IN IF rows = {} /\ c.TurnEndsWhenAllPlayersDone
       THEN [actions |-> ended.actions, turnEnds |-> ended.turnEnds,
             isNil |-> TRUE, playerActions |-> playerActions]
       ELSE [actions |-> acts, turnEnds |-> ends,
             isNil |-> rows = {}, playerActions |-> playerActions]

\* the nations alice and bob hold the territories between them, one army
\* each; no action is recorded yet; up to two turn end handlers are
\* registered
TurnsInit ==
    /\ cfg \in TurnsConfigs
    /\ \E owner \in [Abbreviations -> 0..2] :
          holdings = {[territory |-> t, nation_id |-> owner[t], army_size |-> 1]
                        : t \in {a \in Abbreviations : owner[a] # NullId}}
    /\ holdings # {}
    /\ nations = {r \in BattleNations : \E h \in holdings : h.nation_id = r.id}
    /\ nationSeq = Cardinality(BattleNations)
    /\ lastAction = NoAction
    /\ lastErr = Nil
    /\ lastRoll = 0
    /\ battle = NoForces
    /\ outcome = NotCalled
    /\ pending = NoPending
    /\ actions = <<>>
    /\ turnEnds \in {<<>>, <<0>>, <<0, 0>>}
    /\ returned = NotReturned

\* the timestamps a row inserted now can have: time does not go back
Clock(acts) ==
    {t \in 1..MaxTime : \A i \in DOMAIN acts : acts[i].timestamp <= t}

\* INSERT INTO actions by the application: a player's action, or a new turn
RecordAction ==
    /\ Len(actions) < MaxActionRows
    /\ \E t \in Clock(actions) :
          \E row \in {[nation_id |-> r.id, action_type |-> "move",
                       is_new_turn |-> FALSE, timestamp |-> t] : r \in nations}
                     \cup {[nation_id |-> NullId, action_type |-> "turn",
                            is_new_turn |-> TRUE, timestamp |-> t]} :
             actions' = Append(actions, row)
    /\ returned' = NotReturned
    /\ UNCHANGED <<cfg, nations, holdings, nationSeq, lastAction, lastErr, lastRoll,
                   battle, outcome, pending, turnEnds>>

\* a call of PlayersWithActionsLeft(nil)
CallPlayersWithActionsLeft ==
    /\ Len(actions) <= MaxActionRows
    /\ \E now \in Clock(actions) :
          \E r \in {PlayersWithActionsLeft(store, actions, turnEnds, cfg, now)} :
             /\ actions' = r.actions
             /\ turnEnds' = r.turnEnds
             /\ returned' = [fn |-> "PlayersWithActionsLeft", isNil |-> r.isNil,
                             playerActions |-> r.playerActions]
    /\ UNCHANGED <<cfg, nations, holdings, nationSeq, lastAction, lastErr, lastRoll,
                   battle, outcome, pending>>

\* a call of PlayerActionsRemaining(player, nil)
CallPlayerActionsRemaining ==
    /\ \E player \in BattleUsers :
          returned' = [fn |-> "PlayerActionsRemaining", player |-> player,
                       remaining |-> PlayerActionsRemaining(store, actions, cfg, player)]
    /\ UNCHANGED <<cfg, nations, holdings, nationSeq, lastAction, lastErr, lastRoll,
                   battle, outcome, pending, actions, turnEnds>>

TurnsNext == RecordAction \/ CallPlayersWithActionsLeft \/ CallPlayerActionsRemaining

TurnsSpec == TurnsInit /\ [][TurnsNext]_vars

TypeOK ==
    /\ nationSeq \in 0..MaxNationId
    /\ \A r \in nations : r.id \in 1..nationSeq
    /\ \A h \in holdings : h.territory \in Abbreviations

(***************************************************************************)
(* Properties of the game.                                                 *)
(***************************************************************************)
\* the holdings of a player's nation
HoldingsOfPlayer(n, hs, player) == {h \in hs : ViewPlayer(n, h) = player}

\* the abbreviation of the territory a query resolves to
Resolved(query) == Territories[ResolveTerritory(query)].Abbreviation

\* the name a Join registers the nation under
JoinedName(ja) == IF ja.Nation = "" THEN ja.User \o "'s Nation" ELSE ja.Nation

\* C1: whatever actions have been processed, every nation in the nations
\* table owns at least one holding.
NationsHaveHoldings ==
    \A r \in nations : \E h \in holdings : h.nation_id = r.id

\* a Move or an Attack succeeded and its player's nation is gone with its
\* last holding
ActingNationEliminated ==
    /\ lastAction.kind \in {"move", "attack"}
    /\ lastErr = Nil
    /\ NationsOfPlayer(nations, lastAction.User) = {}
    /\ HoldingsOfPlayer(nations, holdings, lastAction.User) = {}

\* C2: no territory has more than one holding.
OneHoldingPerTerritory ==
    \A h1 \in holdings : \A h2 \in holdings : h1.territory = h2.territory => h1 = h2

\* a second nation asked for a territory that has a holding and was refused
SecondHoldingRefused ==
    /\ lastAction.kind \in {"join", "move"}
    /\ lastErr = ErrTerritoryAlreadyOccupied
    /\ Cardinality(holdings) >= 1

\* C3: under every accepted configuration, no holding has more armies than
\* MaxArmiesPerTerritory.
ArmiesWithinCap ==
    \A h \in holdings : h.army_size <= cfg.MaxArmiesPerTerritory

\* C4: every holding has at least one army.
ArmySizePositive ==
    \A h \in holdings : h.army_size >= 1

\* an Attack succeeded and left no holding in the territory it was made from:
\* the attackers were all lost and the holding went with them
EmptiedHoldingRemoved ==
    /\ lastAction.kind = "attack"
    /\ lastErr = Nil
    /\ \A h \in holdings : h.territory # Resolved(lastAction.AttackingTerritory)

\* C5: no two nations have the same player, the same country name or the
\* same color.
NationsDistinct ==
    \A r \in nations : \A s \in nations :
        r # s => /\ r.id # s.id
                 /\ r.player # s.player
                 /\ r.country_name # s.country_name
                 /\ r.color # s.color

\* a player asked for the color of another nation and was refused
ColorOfOtherNationRefused ==
    /\ lastAction.kind = "color"
    /\ lastErr = ErrColorInUse
    /\ \E r \in nations : r.player # lastAction.User /\ r.color = NormalizeColor(lastAction.Color)

\* C6: an action whose DoAction returns an error leaves the nations and the
\* holdings tables exactly as they were.
ErrorChangesNothing ==
    [][lastErr' # Nil => nations' = nations /\ holdings' = holdings]_vars

\* an action failed after its handler had started to write: a Join whose
\* nation row could be inserted, but not its holding
FailedInsideTransaction ==
    /\ lastAction.kind = "join"
    /\ lastErr = ErrTerritoryAlreadyOccupied
    /\ NationsOfPlayer(nations, lastAction.User) = {}

\* C7: a Color, Raise, Move or Attack of a player without a nation fails with
\* ErrUserNotRegistered (ErrMissingUser for the empty player) whatever else
\* is wrong with it, and changes nothing.
UnregisteredPlayerRejectedFirst ==
    [][(/\ lastAction'.kind \in {"color", "raise", "move", "attack"}
        /\ NationsOfPlayer(nations, lastAction'.User) = {})
       => /\ lastErr' = IF lastAction'.User = "" THEN ErrMissingUser
                        ELSE ErrUserNotRegistered
          /\ nations' = nations
          /\ holdings' = holdings]_vars

\* C8: a Join that succeeds adds exactly one nation, of its player, and
\* exactly one holding, of that nation, in the territory the query resolves
\* to, with InitialArmies armies; after any Join the player has a nation if
\* and only if that nation has a holding.
JoinCreatesNationAndHolding ==
    [][lastAction'.kind = "join"
       => /\ lastErr' = Nil
               => /\ NationsOfPlayer(nations, lastAction'.User) = {}
                  /\ \E row \in nations' \ nations :
                        /\ nations' = nations \cup {row}
                        /\ row.player = lastAction'.User
                        /\ [territory |-> Resolved(lastAction'.Territory),
                            nation_id |-> row.id,
                            army_size |-> cfg.InitialArmies] \notin holdings
                        /\ holdings' = holdings \cup
                              {[territory |-> Resolved(lastAction'.Territory),
                                nation_id |-> row.id,
                                army_size |-> cfg.InitialArmies]}
          /\ lastErr' # Nil => nations' = nations /\ holdings' = holdings
          /\ NationsOfPlayer(nations', lastAction'.User) # {}
                <=> HoldingsOfPlayer(nations', holdings', lastAction'.User) # {}]_vars

\* a Join succeeded under a configuration with more than one initial army
JoinedWithInitialArmies ==
    /\ lastAction.kind = "join"
    /\ lastErr = Nil
    /\ cfg.InitialArmies > 1
    /\ \E h \in HoldingsOfPlayer(nations, holdings, lastAction.User) :
          /\ h.territory = Resolved(lastAction.Territory)
          /\ h.army_size = cfg.InitialArmies

\* C9, as stated: a Join of a player who has a nation fails with
\* ErrPlayerAlreadyJoined, whatever nation name and territory it gives, and
\* changes nothing.
JoinAgainAlwaysPlayerAlreadyJoined ==
    [][(/\ lastAction'.kind = "join"
        /\ NationsOfPlayer(nations, lastAction'.User) # {})
       => /\ lastErr' = ErrPlayerAlreadyJoined
          /\ nations' = nations
          /\ holdings' = holdings]_vars

\* C9, amended: a Join of a player who has a nation changes nothing, and it
\* fails with ErrPlayerAlreadyJoined whatever nation name it gives when its
\* territory resolves; with no territory it fails with ErrNoTargetTerritory,
\* with one that does not resolve with the resolver's error.
JoinAgainRejected ==
    [][(/\ lastAction'.kind = "join"
        /\ NationsOfPlayer(nations, lastAction'.User) # {})
       => /\ lastErr' = IF lastAction'.Territory = "" THEN ErrNoTargetTerritory
                        ELSE IF ResolveTerritory(lastAction'.Territory) = 0
                        THEN ErrUnrecognizedTerritory
                        ELSE ErrPlayerAlreadyJoined
          /\ nations' = nations
          /\ holdings' = holdings]_vars

\* a player with a nation joined again, under the name of no nation yet, for
\* a territory without a holding, and was refused as already joined
JoinAgainRefused ==
    /\ lastAction.kind = "join"
    /\ lastErr = ErrPlayerAlreadyJoined
    /\ NationsOfPlayer(nations, lastAction.User) # {}
    /\ NationsNamed(nations, JoinedName(lastAction)) = {}
    /\ \A h \in holdings : h.territory # Resolved(lastAction.Territory)

\* C10: a Join of a player without a nation, under a name no nation has, for
\* a territory that has a holding fails with ErrTerritoryAlreadyOccupied;
\* after it the player has no nation and the holdings are as before.
JoinOccupiedTerritoryRefused ==
    [][(/\ lastAction'.kind = "join"
        /\ lastAction'.User # ""
        /\ NationsOfPlayer(nations, lastAction'.User) = {}
        /\ NationsNamed(nations, JoinedName(lastAction')) = {}
        /\ ResolveTerritory(lastAction'.Territory) # 0
        /\ \E h \in holdings : h.territory = Resolved(lastAction'.Territory))
       => /\ lastErr' = ErrTerritoryAlreadyOccupied
          /\ NationsOfPlayer(nations', lastAction'.User) = {}
          /\ holdings' = holdings]_vars

\* the holding of a player in the territory a query resolves to, as a set
\* (empty when the query does not resolve or the player has none there)
HoldingOfPlayerAt(n, hs, player, query) ==
    IF ResolveTerritory(query) = 0 THEN {}
    ELSE {h \in HoldingsOfPlayer(n, hs, player) : h.territory = Resolved(query)}

\* the holdings with the army size of holding h set to size, h removed when
\* size is 0
WithArmySize(hs, h, size) ==
    IF size = 0 THEN hs \ {h}
    ELSE (hs \ {h}) \cup {[h EXCEPT !.army_size = size]}

\* C11: a Raise on a holding of its player with s <= MaxArmiesPerTerritory
\* armies succeeds when s is below the cap, adding exactly 1 army to that
\* holding and changing nothing else, and fails with the max-armies error,
\* changing nothing, when s is at the cap: from s it succeeds cap - s times
\* and then never again.
RaiseUpToCap ==
    [][lastAction'.kind = "raise"
       => \A h \in HoldingOfPlayerAt(nations, holdings, lastAction'.User,
                                     lastAction'.Territory) :
            h.army_size <= cfg.MaxArmiesPerTerritory
            => IF h.army_size < cfg.MaxArmiesPerTerritory
               THEN /\ lastErr' = Nil
                    /\ nations' = nations
                    /\ holdings' = WithArmySize(holdings, h, h.army_size + 1)
               ELSE /\ lastErr' = ErrMaxArmies
                    /\ nations' = nations
                    /\ holdings' = holdings]_vars

\* a Raise was refused on a holding that stands at a cap above the initial
\* armies
RaiseRefusedAtCap ==
    /\ lastAction.kind = "raise"
    /\ lastErr = ErrMaxArmies
    /\ cfg.InitialArmies < cfg.MaxArmiesPerTerritory
    /\ \E h \in HoldingOfPlayerAt(nations, holdings, lastAction.User, lastAction.Territory) :
          h.army_size = cfg.MaxArmiesPerTerritory

\* C12: a Move between two territories that are not neighbors is rejected
\* and changes neither table.
MoveToNonNeighborRejected ==
    [][(/\ lastAction'.kind = "move"
        /\ ResolveTerritory(lastAction'.Source) # 0
        /\ ResolveTerritory(lastAction'.Destination) # 0
        /\ ~IsNeighboring(Territories[ResolveTerritory(lastAction'.Source)],
                          lastAction'.Destination))
       => /\ lastErr' # Nil
          /\ nations' = nations
          /\ holdings' = holdings]_vars

\* the holdings in a territory (none or one), and the armies in it
HoldingsAt(hs, territory) == {h \in hs : h.territory = territory}

ArmiesAt(hs, territory) ==
    IF HoldingsAt(hs, territory) = {} THEN 0
    ELSE (CHOOSE h \in HoldingsAt(hs, territory) : TRUE).army_size

\* the number of armies a Move of ma takes from the source holding h
MovedArmies(ma, h) == IF ma.Armies <= 0 THEN h.army_size ELSE ma.Armies

\* the holdings after the armies of holding h were reduced to left (h removed
\* when left is 0) and the territory dest is held by h's nation with arrived
\* armies (by nobody when arrived is 0)
AfterMove(hs, h, left, dest, arrived) ==
    (hs \ ({h} \cup HoldingsAt(hs, dest)))
        \cup (IF left > 0 THEN {[h EXCEPT !.army_size = left]} ELSE {})
        \cup (IF arrived > 0
              THEN {[territory |-> dest, nation_id |-> h.nation_id, army_size |-> arrived]}
              ELSE {})

\* C13: with the garrison flag off, a Move that succeeds takes n armies (all
\* of them when the count is 0) from its player's source holding of s armies
\* to a destination that is unclaimed or the player's own, with d armies:
\* after it the source has s - n armies (no holding when that is 0), the
\* destination is the player's with d + n armies, and no other holding and
\* no nation has changed.
MoveWithoutGarrison ==
    [][(/\ lastAction'.kind = "move"
        /\ lastErr' = Nil
        /\ ~cfg.UnclaimedTerritoriesHave1Army)
       => /\ HoldingOfPlayerAt(nations, holdings, lastAction'.User, lastAction'.Source) # {}
          /\ \A h \in HoldingOfPlayerAt(nations, holdings, lastAction'.User,
                                        lastAction'.Source) :
                /\ HoldingsAt(holdings, Resolved(lastAction'.Destination))
                      \subseteq HoldingsOfPlayer(nations, holdings, lastAction'.User)
                /\ MovedArmies(lastAction', h) <= h.army_size
                /\ holdings' = AfterMove(holdings, h,
                                  h.army_size - MovedArmies(lastAction', h),
                                  Resolved(lastAction'.Destination),
                                  ArmiesAt(holdings, Resolved(lastAction'.Destination))
                                      + MovedArmies(lastAction', h))
                /\ nations' = nations]_vars

\* C13 for a destination that is another territory than the source: what
\* the claim says of a Move between two territories
MoveWithoutGarrisonElsewhere ==
    [][(/\ lastAction'.kind = "move"
        /\ lastErr' = Nil
        /\ ~cfg.UnclaimedTerritoriesHave1Army
        /\ ResolveTerritory(lastAction'.Source) # ResolveTerritory(lastAction'.Destination))
       => /\ HoldingOfPlayerAt(nations, holdings, lastAction'.User, lastAction'.Source) # {}
          /\ \A h \in HoldingOfPlayerAt(nations, holdings, lastAction'.User,
                                        lastAction'.Source) :
                /\ holdings' = AfterMove(holdings, h,
                                  h.army_size - MovedArmies(lastAction', h),
                                  Resolved(lastAction'.Destination),
                                  ArmiesAt(holdings, Resolved(lastAction'.Destination))
                                      + MovedArmies(lastAction', h))
                /\ nations' = nations]_vars

\* the destination of the Move ma is held by another player than its own
DestinationOfOther(n, hs, ma) ==
    /\ ResolveTerritory(ma.Destination) # 0
    /\ \E h \in HoldingsAt(hs, Resolved(ma.Destination)) : ViewPlayer(n, h) # ma.User

MoreThanInSource(hs, ma) ==
    /\ ResolveTerritory(ma.Source) # 0
    /\ \E h \in HoldingsAt(hs, Resolved(ma.Source)) : ma.Armies > h.army_size

\* the source of the Move ma is not a holding of its player
SourceNotOwned(n, hs, ma) ==
    HoldingOfPlayerAt(n, hs, ma.User, ma.Source) = {}

\* the armies in the destination of the Move ma and the armies it moves are
\* more than the cap
WouldExceedCap(c, hs, ma) ==
    /\ ResolveTerritory(ma.Source) # 0
    /\ ResolveTerritory(ma.Destination) # 0
    /\ \E h \in HoldingsAt(hs, Resolved(ma.Source)) :
          ArmiesAt(hs, Resolved(ma.Destination)) + MovedArmies(ma, h)
              > c.MaxArmiesPerTerritory

\* C15: a Move fails and changes neither table when it asks for more armies
\* than the source holding has, when the source is not a holding of its
\* player, or when the armies in the destination and the moved armies
\* together are more than MaxArmiesPerTerritory.
MoveRejections ==
    [][(/\ lastAction'.kind = "move"
        /\ \/ MoreThanInSource(holdings, lastAction')
           \/ SourceNotOwned(nations, holdings, lastAction')
           \/ WouldExceedCap(cfg, holdings, lastAction'))
       => /\ lastErr' # Nil
          /\ nations' = nations
          /\ holdings' = holdings]_vars

\* a Move of armies its player has, to a destination that is free or its
\* own, was refused because the destination would hold more than the cap
MoveRefusedForCap ==
    /\ lastAction.kind = "move"
    /\ lastErr = ErrWouldExceedMax
    /\ WouldExceedCap(cfg, holdings, lastAction)
    /\ ~MoreThanInSource(holdings, lastAction)
    /\ ~SourceNotOwned(nations, holdings, lastAction)

\* the armies of a moving force of n that arrive in a garrisoned unclaimed
\* territory when the die roll is x: n less the attacker's losses of the
\* combat of n against 1
Arriving(n, x) ==
    IF attackCalculation(n, 1, x).losses < 0
    THEN n + attackCalculation(n, 1, x).losses
    ELSE n

\* the holdings in territory dest are: one of nation_id with size armies, or
\* none when size is 0
HeldWith(hs, dest, nation_id, size) ==
    HoldingsAt(hs, dest) =
        IF size > 0
        THEN {[territory |-> dest, nation_id |-> nation_id, army_size |-> size]}
        ELSE {}

\* C16: with the garrison flag on, a Move of n armies that succeeds into an
\* unclaimed territory fights n against 1: the armies that arrive are n less
\* the magnitude of a negative loss, all n otherwise, a holding of the mover
\* is created in the destination only when some arrive, and with a die roll
\* of 1 exactly n - 1 arrive; into a holding of the mover's own, of d
\* armies, it draws no die and leaves d + n armies.
MoveWithGarrison ==
    [][(/\ lastAction'.kind = "move"
        /\ lastErr' = Nil
        /\ cfg.UnclaimedTerritoriesHave1Army)
       => \A h \in HoldingOfPlayerAt(nations, holdings, lastAction'.User,
                                     lastAction'.Source) :
            IF HoldingsAt(holdings, Resolved(lastAction'.Destination)) = {}
            THEN /\ lastRoll' \in DieRolls
                 /\ HeldWith(holdings', Resolved(lastAction'.Destination), h.nation_id,
                             Arriving(MovedArmies(lastAction', h), lastRoll'))
                 /\ lastRoll' = 1
                    => ArmiesAt(holdings', Resolved(lastAction'.Destination))
                         = MovedArmies(lastAction', h) - 1
            ELSE /\ lastRoll' = 0
                 /\ HeldWith(holdings', Resolved(lastAction'.Destination), h.nation_id,
                             ArmiesAt(holdings, Resolved(lastAction'.Destination))
                                 + MovedArmies(lastAction', h))]_vars

\* C16 without its remark on the die roll of 1
MoveWithGarrisonArrivals ==
    [][(/\ lastAction'.kind = "move"
        /\ lastErr' = Nil
        /\ cfg.UnclaimedTerritoriesHave1Army)
       => \A h \in HoldingOfPlayerAt(nations, holdings, lastAction'.User,
                                     lastAction'.Source) :
            IF HoldingsAt(holdings, Resolved(lastAction'.Destination)) = {}
            THEN /\ lastRoll' \in DieRolls
                 /\ HeldWith(holdings', Resolved(lastAction'.Destination), h.nation_id,
                             Arriving(MovedArmies(lastAction', h), lastRoll'))
            ELSE /\ lastRoll' = 0
                 /\ HeldWith(holdings', Resolved(lastAction'.Destination), h.nation_id,
                             ArmiesAt(holdings, Resolved(lastAction'.Destination))
                                 + MovedArmies(lastAction', h))]_vars

\* C17: a Move that succeeds leaves the source holding with the armies it had
\* less the requested count (all of them for a count of 0), no holding when
\* that is 0, however many armies arrive; when the mover then has no holding
\* at all its nation is deleted by the same Move, and otherwise no nation
\* changes.
MoveReducesSource ==
    [][(/\ lastAction'.kind = "move"
        /\ lastErr' = Nil)
       => /\ HoldingOfPlayerAt(nations, holdings, lastAction'.User, lastAction'.Source) # {}
          /\ \A h \in HoldingOfPlayerAt(nations, holdings, lastAction'.User,
                                        lastAction'.Source) :
                HeldWith(holdings', h.territory, h.nation_id,
                         h.army_size - MovedArmies(lastAction', h))
          /\ nations' = IF HoldingsOfPlayer(nations, holdings', lastAction'.User) = {}
                        THEN nations \ NationsOfPlayer(nations, lastAction'.User)
                        ELSE nations]_vars

\* a Move of all the armies of a nation's only holding failed its invasion
\* check with every army lost: the nation is gone
MoverEliminated ==
    /\ lastAction.kind = "move"
    /\ lastErr = Nil
    /\ lastRoll \in DieRolls
    /\ NationsOfPlayer(nations, lastAction.User) = {}
    /\ \A h \in holdings : h.territory \notin {Resolved(lastAction.Source),
                                               Resolved(lastAction.Destination)}

\* the territories of the Attack aa resolve, to one territory or to two that
\* are not neighbors
NotAttackable(aa) ==
    /\ ResolveTerritory(aa.AttackingTerritory) # 0
    /\ ResolveTerritory(aa.DefendingTerritory) # 0
    /\ \/ ResolveTerritory(aa.AttackingTerritory) = ResolveTerritory(aa.DefendingTerritory)
       \/ ~IsNeighboring(Territories[ResolveTerritory(aa.AttackingTerritory)],
                         aa.DefendingTerritory)

\* the defending territory of the Attack aa resolves and has no holding
NothingToAttack(hs, aa) ==
    /\ ResolveTerritory(aa.DefendingTerritory) # 0
    /\ HoldingsAt(hs, Resolved(aa.DefendingTerritory)) = {}

\* C18: an Attack fails and changes neither table when the attacking and the
\* defending territory are the same, when they are not neighbors, when its
\* player has no holding in the attacking territory, or when the defending
\* territory has no holding.
AttackRejections ==
    [][(/\ lastAction'.kind = "attack"
        /\ \/ NotAttackable(lastAction')
           \/ HoldingOfPlayerAt(nations, holdings, lastAction'.User,
                                lastAction'.AttackingTerritory) = {}
           \/ NothingToAttack(holdings, lastAction'))
       => /\ lastErr' # Nil
          /\ nations' = nations
          /\ holdings' = holdings]_vars

\* a player's Attack from a holding of its own on a holding two territories
\* away was refused
AttackOnNonNeighborRefused ==
    /\ lastAction.kind = "attack"
    /\ lastErr = ErrNotNeighboring
    /\ HoldingOfPlayerAt(nations, holdings, lastAction.User,
                         lastAction.AttackingTerritory) # {}
    /\ HoldingsAt(holdings, Resolved(lastAction.DefendingTerritory)) # {}

\* C19: an Attack whose defending territory is held by the attacking player
\* fails.
AttackOnOwnHoldingRejected ==
    [][(/\ lastAction'.kind = "attack"
        /\ HoldingOfPlayerAt(nations, holdings, lastAction'.User,
                             lastAction'.DefendingTerritory) # {})
       => lastErr' # Nil]_vars

\* the holding h has the given size in hs, and is not in hs when the size is 0
Becomes(hs, h, size) ==
    HoldingsAt(hs, h.territory) =
        IF size = 0 THEN {} ELSE {[h EXCEPT !.army_size = size]}

\* the loss attackCalculation returns for the holdings ha against hd and the
\* die roll x
ResolverLoss(ha, hd, x) == attackCalculation(ha.army_size, hd.army_size, x).losses

AttackMutatesOneSide ==
    [][(/\ lastAction'.kind = "attack"
        /\ lastErr' = Nil)
       => \A ha \in HoldingOfPlayerAt(nations, holdings, lastAction'.User,
                                      lastAction'.AttackingTerritory),
             hd \in HoldingsAt(holdings, Resolved(lastAction'.DefendingTerritory)) :
             (ha \in holdings') # (hd \in holdings')]_vars

\* C21, amended: an Attack that succeeds changes neither holding when the
\* resolver's loss is 0, and otherwise the army size or the existence of
\* exactly one of the attacking and the defending holding; it never changes
\* both.
AttackMutatesAtMostOneSide ==
    [][(/\ lastAction'.kind = "attack"
        /\ lastErr' = Nil)
       => /\ HoldingOfPlayerAt(nations, holdings, lastAction'.User,
                               lastAction'.AttackingTerritory) # {}
          /\ HoldingsAt(holdings, Resolved(lastAction'.DefendingTerritory)) # {}
          /\ \A ha \in HoldingOfPlayerAt(nations, holdings, lastAction'.User,
                                         lastAction'.AttackingTerritory),
                hd \in HoldingsAt(holdings, Resolved(lastAction'.DefendingTerritory)) :
                IF ResolverLoss(ha, hd, lastRoll') = 0
                THEN ha \in holdings' /\ hd \in holdings'
                ELSE (ha \in holdings') # (hd \in holdings')]_vars

\* an Attack of equal armies with a die roll of 10 has succeeded and both
\* holdings are there with their armies
AttackStalemate ==
    /\ lastAction.kind = "attack"
    /\ lastErr = Nil
    /\ lastRoll = 10
    /\ \E ha \in HoldingOfPlayerAt(nations, holdings, lastAction.User,
                                   lastAction.AttackingTerritory),
          hd \in HoldingsAt(holdings, Resolved(lastAction.DefendingTerritory)) :
          ha.army_size = hd.army_size

\* C22: an Attack creates no holding and changes the owner of none: every
\* holding there is after it was there before it, in the same territory and
\* of the same nation, so that a defending territory that has lost all its
\* armies is unclaimed.
AttackKeepsOwners ==
    [][lastAction'.kind = "attack"
       => \A after \in holdings' :
             \E before \in holdings :
                /\ before.territory = after.territory
                /\ before.nation_id = after.nation_id]_vars

\* an Attack with a die roll of 20 has removed the defending holding, and
\* the defending territory is unclaimed while the attacker holds the
\* attacking territory
DefendingTerritoryUnclaimed ==
    /\ lastAction.kind = "attack"
    /\ lastErr = Nil
    /\ lastRoll = 20
    /\ HoldingsAt(holdings, Resolved(lastAction.DefendingTerritory)) = {}
    /\ HoldingOfPlayerAt(nations, holdings, lastAction.User,
                         lastAction.AttackingTerritory) # {}

\* C23: an Attack that succeeds leaves exactly the nations that have a
\* holding after it: the nation whose last holding it removed, the defender's
\* or the attacker's own, is deleted in the same step as the holding, and
\* every nation that still has a holding is kept as it was.
AttackDeletesNationWithoutHoldings ==
    [][(/\ lastAction'.kind = "attack"
        /\ lastErr' = Nil)
       => nations' = {n \in nations : \E h \in holdings' : h.nation_id = n.id}]_vars

\* an Attack has removed the attacker's only holding and with it the
\* attacker's nation, and the defending holding is there
AttackerEliminated ==
    /\ lastAction.kind = "attack"
    /\ lastErr = Nil
    /\ lastRoll \in DieRolls
    /\ NationsOfPlayer(nations, lastAction.User) = {}
    /\ HoldingsAt(holdings, Resolved(lastAction.AttackingTerritory)) = {}
    /\ HoldingsAt(holdings, Resolved(lastAction.DefendingTerritory)) # {}

\* an Attack has removed the defending holding, and only the attacker's
\* nation is left of the two nations that had joined
DefenderEliminated ==
    /\ lastAction.kind = "attack"
    /\ lastErr = Nil
    /\ lastRoll \in DieRolls
    /\ nationSeq = 2
    /\ nations = NationsOfPlayer(nations, lastAction.User)
    /\ HoldingsAt(holdings, Resolved(lastAction.DefendingTerritory)) = {}

\* the armies the Attack has taken from the holding h
Casualties(hs, after, h) == ArmiesAt(hs, h.territory) - ArmiesAt(after, h.territory)

\* C24: the result of an Attack that succeeds has the die roll, the sizes of
\* the attacking and of the defending army before the battle, the loss that
\* was applied with its sign (the defender's casualties, or the attacker's
\* casualties negated) and a flag that is true exactly when the Attack has
\* deleted a nation.
AttackResultReportsBattle ==
    [][(/\ lastAction'.kind = "attack"
        /\ lastErr' = Nil)
       => \A ha \in HoldingOfPlayerAt(nations, holdings, lastAction'.User,
                                      lastAction'.AttackingTerritory),
             hd \in HoldingsAt(holdings, Resolved(lastAction'.DefendingTerritory)) :
             /\ AttackActionResult(store, lastAction', lastRoll').DieRoll = lastRoll'
             /\ AttackActionResult(store, lastAction', lastRoll').Attacking = ha.army_size
             /\ AttackActionResult(store, lastAction', lastRoll').Defending = hd.army_size
             /\ AttackActionResult(store, lastAction', lastRoll').Losses =
                    Casualties(holdings, holdings', hd) - Casualties(holdings, holdings', ha)
             /\ AttackActionResult(store, lastAction', lastRoll').NationRemoved =
                    (nations' # nations)]_vars

\* the same without the sign of the loss: the result has the die roll, the
\* sizes before the battle, the defender's casualties as its loss, and the
\* flag of the deleted nation
AttackResultReportsDefenderLosses ==
    [][(/\ lastAction'.kind = "attack"
        /\ lastErr' = Nil)
       => \A ha \in HoldingOfPlayerAt(nations, holdings, lastAction'.User,
                                      lastAction'.AttackingTerritory),
             hd \in HoldingsAt(holdings, Resolved(lastAction'.DefendingTerritory)) :
             /\ AttackActionResult(store, lastAction', lastRoll').DieRoll = lastRoll'
             /\ AttackActionResult(store, lastAction', lastRoll').Attacking = ha.army_size
             /\ AttackActionResult(store, lastAction', lastRoll').Defending = hd.army_size
             /\ AttackActionResult(store, lastAction', lastRoll').Losses =
                    Casualties(holdings, holdings', hd)
             /\ AttackActionResult(store, lastAction', lastRoll').NationRemoved =
                    (nations' # nations)]_vars

\* C25: the resolver fails with the invalid-army-sizes error whenever the
\* attacking or the defending force is 0 or less, whatever the die would
\* roll, and returns no error whenever both forces are 1 or more.
ResolverGuardsForces ==
    outcome # NotCalled
    => IF battle.attacking <= 0 \/ battle.defending <= 0
       THEN outcome.err = ErrInvalidArmySizes
       ELSE outcome.err = Nil

\* the resolver has refused an attack on a territory without defenders
ResolverRefusedNoDefenders ==
    /\ outcome.err = ErrInvalidArmySizes
    /\ battle.attacking >= 1
    /\ battle.defending = 0

\* the resolver was called with forces of 1 or more and has returned
ResolverReturned ==
    /\ outcome # NotCalled
    /\ battle.attacking >= 1
    /\ battle.defending >= 1

\* the die roll x makes the attack of a on d succeed
Succeeds(a, d, x) == x > (d - a) * 2 + 10

\* floor(0.5*x + k)
FloorOfHalf(x, k) == (x + 2 * k) \div 2

\* C26: for forces a and d of 1 or more and a die roll x with
\* x > (d - a)*2 + 10, the attack succeeds, and the resolver returns the loss
\* min(d, max(1, floor(0.5*x + a - d - 5))), which is at least 1 and at most d.
ResolverSuccessLoss ==
    (ResolverReturned /\ Succeeds(battle.attacking, battle.defending, outcome.x))
    => /\ outcome.losses =
            Min(battle.defending,
                Max(1, FloorOfHalf(outcome.x, battle.attacking - battle.defending - 5)))
       /\ outcome.losses \in 1..battle.defending

\* 2 armies have attacked 2 with a die roll of 11, and the loss of
\* floor(5.5 + 0 - 5) = 0 was raised to 1
ResolverRaisedLossToOne ==
    /\ battle = [attacking |-> 2, defending |-> 2]
    /\ outcome.x = 11
    /\ outcome.losses = 1

\* C27: for forces a and d of 1 or more and a die roll x with
\* x <= (d - a)*2 + 10, the attack does not succeed and the resolver returns
\* a loss of 0 or less: the casualties of a failed roll are the attacker's.
ResolverFailureLossNotPositive ==
    (ResolverReturned /\ ~Succeeds(battle.attacking, battle.defending, outcome.x))
    => outcome.losses <= 0

\* C28: for forces a and d from 1 to the cap, the die roll the resolver
\* returns is one of 1..20, a loss above 0 is at most d and a loss below 0
\* is at most a in magnitude.
ResolverLossBounded ==
    ResolverReturned
    => /\ outcome.x \in 1..20
       /\ outcome.losses > 0 => outcome.losses <= battle.defending
       /\ outcome.losses < 0 => -outcome.losses <= battle.attacking

\* what holds of the bounds: the die roll is one of 1..20, the loss of a
\* roll that succeeds is at most d, and a loss below 0 is at most a in
\* magnitude
ResolverLossBoundedOnSuccess ==
    ResolverReturned
    => /\ outcome.x \in 1..20
       /\ (Succeeds(battle.attacking, battle.defending, outcome.x) /\ outcome.losses > 0)
            => outcome.losses <= battle.defending
       /\ outcome.losses < 0 => -outcome.losses <= battle.attacking

ResolverExtremeRollsAnyCap ==
    ResolverReturned
    => /\ outcome.x = 20 => outcome.losses > 0
       /\ outcome.x = 1 => outcome.losses < 0

\* C30: for forces a and d from 1 to the cap the success rule gives the odds
\* table: a die roll of 19 or 20 always succeeds, one of 13 or more succeeds
\* when the defenders are one more than the attackers, one of 11 or more when
\* the forces are equal, and one of 9 or more when the attackers are more
\* than the defenders; an attack that succeeds destroys defenders.
ResolverOddsTable ==
    (/\ ResolverReturned
     /\ \/ outcome.x >= 19
        \/ outcome.x >= 13 /\ battle.defending = battle.attacking + 1
        \/ outcome.x >= 11 /\ battle.defending = battle.attacking
        \/ outcome.x >= 9 /\ battle.attacking > battle.defending)
    => /\ Succeeds(battle.attacking, battle.defending, outcome.x)
       /\ outcome.losses > 0

\* the odds table under a cap of 5 or less
ResolverOddsTableDefaultCap ==
    cfg.MaxArmiesPerTerritory <= DefaultMaxArmiesPerTerritory => ResolverOddsTable

\* another nation than the player's has the color
ColorOfAnother(n, player, color) == \E r \in n : r.player # player /\ r.color = color

\* C31: a Color of a player in the game with a color expression that parses
\* fails with ErrColorInUse exactly when another nation has the normalized
\* color, and then no nation changes; otherwise, also when the color is the
\* one the player's nation has, it succeeds, the player's nation has the
\* color and the other nations are as they were.
ColorInUseExactly ==
    [][(/\ lastAction'.kind = "color"
        /\ NationsOfPlayer(nations, lastAction'.User) # {}
        /\ NormalizeColor(lastAction'.Color) # "")
       => IF ColorOfAnother(nations, lastAction'.User, NormalizeColor(lastAction'.Color))
          THEN /\ lastErr' = ErrColorInUse
               /\ nations' = nations
          ELSE /\ lastErr' = Nil
               /\ nations' = {IF r.player = lastAction'.User
                              THEN [r EXCEPT !.color = NormalizeColor(lastAction'.Color)]
                              ELSE r : r \in nations}]_vars

\* a player whose nation is green asked for "#F00", the red of another
\* nation, and was refused
ColorInUseRefused ==
    /\ lastAction.kind = "color"
    /\ lastAction.Color = "#F00"
    /\ lastErr = ErrColorInUse
    /\ \E r \in nations : r.player = lastAction.User /\ r.color = "00ff00"
    /\ ColorOfAnother(nations, lastAction.User, "ff0000")

\* C32: while there are fewer nations than MinimumNationsToStart, every
\* Raise, Move and Attack fails.
TurnActionsNeedNations ==
    [][(/\ lastAction'.kind \in {"raise", "move", "attack"}
        /\ Cardinality(nations) < cfg.MinimumNationsToStart)
       => lastErr' # Nil]_vars

\* the tables after the actions of todo have run alone, one after another,
\* in each of their orders
RECURSIVE SerialRuns(_, _, _)
SerialRuns(db, c, todo) ==
    IF todo = {} THEN {db}
    ELSE UNION {SerialRuns(RunAction(db, c, t.action, t.roll).db, c, todo \ {t})
                    : t \in todo}

\* the actions that have succeeded at the same time: the one of the process
\* that read first, and those of the processes that ran in between
SucceededTogether ==
    {[action |-> pending.action, roll |-> pending.roll, i |-> 0]}
    \cup {[action |-> pending.others[i].action, roll |-> pending.others[i].roll, i |-> i]
            : i \in DOMAIN pending.others}

\* C33: when processes run at the same time and their actions succeed, the
\* nations and holdings at the end are those of running the same actions one
\* after another in some order: no update is lost and nothing is written
\* from a size that is no longer there.
ActionsSerializable ==
    (pending.kind = "done" /\ pending.err = Nil)
    => store \in SerialRuns(pending.seen, cfg, SucceededTogether)

\* the process that had read commits a Move, with success, after actions of
\* other players only
MoveCommits ==
    /\ pending.kind = "read"
    /\ \A i \in DOMAIN pending.others :
          pending.others[i].action.User # pending.action.User
    /\ pending'.kind = "done"
    /\ pending'.action.kind = "move"
    /\ pending'.err = Nil

\* C40: whatever other players' actions ran since the Move read, the Move
\* that commits changes or deletes at its source territory only a holding of
\* the moving player, and deletes no nation of another player.
MoveTouchesOnlyMover ==
    [][MoveCommits
         => /\ \A h \in HoldingsAt(holdings, Resolved(pending.action.Source)) :
                  h \notin holdings' => ViewPlayer(nations, h) = pending.action.User
            /\ \A n \in nations \ nations' : n.player = pending.action.User]_vars

\* C34: the error of a Join follows the order of its checks: no territory or
\* one that does not resolve first, then the player who has a nation, then
\* the nation name that is taken; ErrTerritoryAlreadyOccupied is returned
\* only when the player has no nation and no nation has the name.
JoinErrorsInValidationOrder ==
    [][lastAction'.kind = "join"
       => /\ lastAction'.Territory = "" => lastErr' = ErrNoTargetTerritory
          /\ (/\ lastAction'.Territory # ""
              /\ ResolveTerritory(lastAction'.Territory) = 0)
             => lastErr' = ErrUnrecognizedTerritory
          /\ (/\ ResolveTerritory(lastAction'.Territory) # 0
              /\ NationsOfPlayer(nations, lastAction'.User) # {})
             => lastErr' = ErrPlayerAlreadyJoined
          /\ (/\ ResolveTerritory(lastAction'.Territory) # 0
              /\ NationsOfPlayer(nations, lastAction'.User) = {}
              /\ NationsNamed(nations, JoinedName(lastAction')) # {})
             => lastErr' = ErrNationAlreadyJoined
          /\ lastErr' = ErrTerritoryAlreadyOccupied
             => /\ NationsOfPlayer(nations, lastAction'.User) = {}
                /\ NationsNamed(nations, JoinedName(lastAction')) = {}]_vars

\* a player with a nation joined under a name that another nation has, for a
\* territory that has a holding, and was refused as already joined
JoinAllFailedAtOnce ==
    /\ lastAction.kind = "join"
    /\ lastErr = ErrPlayerAlreadyJoined
    /\ NationsOfPlayer(nations, lastAction.User) # {}
    /\ \E r \in NationsNamed(nations, JoinedName(lastAction)) : r.player # lastAction.User
    /\ \E h \in holdings : h.territory = Resolved(lastAction.Territory)

\* the nation rows of the players who hold territory t
OwnersAt(n, hs, t) ==
    {r \in n : \E h \in HoldingsAt(hs, t) : h.nation_id = r.id}

\* C35: UpdateHoldingArmySize(territory, size, cascade) fails and changes
\* nothing when the territory has no holding; for a size above 0 it sets the
\* army size of that holding and deletes nothing; for every size of 0 or
\* less it deletes the holding and, when cascade is set and the owner is
\* left with no holding, the owner's nation, so with cascade set no nation
\* is left without holdings.
UpdateHoldingArmySizeContract ==
    [][lastAction'.kind = "update"
       => LET t == lastAction'.territory
              size == lastAction'.size
              cascade == lastAction'.deleteNationIfNoTerritories
              rest == holdings \ HoldingsAt(holdings, t)
              orphaned == {r \in OwnersAt(nations, holdings, t) :
                             \A h \in rest : h.nation_id # r.id}
          IN /\ HoldingsAt(holdings, t) = {}
                => lastErr' # Nil /\ nations' = nations /\ holdings' = holdings
             /\ (HoldingsAt(holdings, t) # {} /\ size > 0)
                => /\ lastErr' = Nil
                   /\ nations' = nations
                   /\ holdings' = rest \cup {[h EXCEPT !.army_size = size]
                                               : h \in HoldingsAt(holdings, t)}
             /\ (HoldingsAt(holdings, t) # {} /\ size <= 0)
                => /\ lastErr' = Nil
                   /\ holdings' = rest
                   /\ nations' = IF cascade THEN nations \ orphaned ELSE nations
                   /\ cascade => \A r \in nations' :
                                    \E h \in holdings' : h.nation_id = r.id]_vars

\* C36: the result of a successful Move tells three outcomes apart:
\* failedMove is set exactly when no armies are in the destination for the
\* mover that were not there before, nationRemoved exactly when the Move
\* deleted the mover's nation, and nationRemoved is never set without
\* failedMove.
MoveResultTellsOutcome ==
    [][(lastAction'.kind = "move" /\ lastErr' = Nil)
       => LET result == MoveActionResult(store, cfg, lastAction', lastRoll')
              dest == Resolved(lastAction'.Destination)
              established ==
                  \E h \in HoldingsAt(holdings', dest) :
                     /\ ViewPlayer(nations', h) = lastAction'.User
                     /\ \A g \in HoldingsAt(holdings, dest) : h.army_size > g.army_size
          IN /\ result.failedMove <=> ~established
             /\ result.nationRemoved
                <=> /\ NationsOfPlayer(nations, lastAction'.User) # {}
                    /\ NationsOfPlayer(nations', lastAction'.User) = {}
             /\ result.nationRemoved => result.failedMove]_vars

\* the sum of the army sizes of the holdings hs
RECURSIVE ArmyTotal(_)
ArmyTotal(hs) ==
    IF hs = {} THEN 0
    ELSE LET h == CHOOSE g \in hs : TRUE
         IN h.army_size + ArmyTotal(hs \ {h})

\* C39: the armies in the game become more only by a Join, by InitialArmies,
\* and by a Raise, by 1: no Move, Attack or Color makes the sum of the army
\* sizes greater, and a successful Move with the garrison flag off leaves
\* the sum as it was.
ArmiesOnlyJoinedOrRaised ==
    [][/\ lastAction'.kind \in {"move", "attack", "color"}
          => ArmyTotal(holdings') <= ArmyTotal(holdings)
       /\ lastAction'.kind = "join"
          => ArmyTotal(holdings') - ArmyTotal(holdings) \in {0, cfg.InitialArmies}
       /\ lastAction'.kind = "raise"
          => ArmyTotal(holdings') - ArmyTotal(holdings) \in {0, 1}
       /\ (/\ lastAction'.kind = "move"
           /\ lastErr' = Nil
           /\ ~cfg.UnclaimedTerritoriesHave1Army)
          => ArmyTotal(holdings') = ArmyTotal(holdings)]_vars

\* the actions of a player since the latest new turn, all of them when no
\* turn has ended yet
ActionsThisTurn(n, acts, player) ==
    LET turnTimes == NewTurnTimes(acts)
    IN {i \in DOMAIN acts :
          /\ ViewPlayer(n, acts[i]) = player
          /\ turnTimes # {} => acts[i].timestamp >= MaxTimestamp(turnTimes)}

\* the actions a player may take each turn: its holdings over the divisor,
\* rounded up
ActionsPerTurn(n, hs, c, player) ==
    Ceil(Cardinality(HoldingsOfPlayer(n, hs, player)), c.ActionsPerTurnHoldingsDivisor)

\* C37: PlayerActionsRemaining returns the actions the player can still take
\* this turn: the actions per turn less those taken since the latest new
\* turn, and 0 when that is below 0 or the player has no holdings.
RemainingIsActionsLeft ==
    [][returned'.fn = "PlayerActionsRemaining"
       => returned'.remaining =
            Max(0, ActionsPerTurn(nations, holdings, cfg, returned'.player)
                   - Cardinality(ActionsThisTurn(nations, actions,
                                                 returned'.player)))]_vars

\* the players who have taken fewer actions since the latest new turn than
\* they may take in a turn
PlayersLeft(n, hs, acts, c) ==
    {p \in BattleUsers :
        Cardinality(ActionsThisTurn(n, acts, p)) < ActionsPerTurn(n, hs, c, p)}

====
